---- MODULE Spec2Model ----
(***************************************************************************)
(* Cosmic Event Tracker: the NEO normalization pipeline (lib/nasa:         *)
(* normalizeApproach, normalizeNeo, normalizeNeoData) and the client hook  *)
(* useNeoFeed (full fetch = replace, loadMore = merge into the held list). *)
(*                                                                         *)
(* Numbers are small naturals.  A JavaScript null, undefined or absent     *)
(* field is Null; the code paths modelled here treat the three alike       *)
(* (`||`, `!`, `?.`).  An optional object (nearestApproach) is a sequence  *)
(* of length 0 (null) or 1.                                                *)
(***************************************************************************)
EXTENDS Integers, Sequences, FiniteSets, TLC

VARIABLES
    \* ---- useNeoFeed (client hook) ----
    data,           \* useState<DayGroup[]>: the held list
    sortOrder,      \* the sortOrder prop captured by fetchData / loadMore
    error,          \* useState<ApiError | null>: Null or the error's type
    isLoading,      \* useState(true)
    isLoadingMore,  \* useState(false)
    rev,            \* which of the two revisions of the hook is built
    engine,         \* argument order the browser's Array.prototype.sort uses
    prevData,       \* history: data before the last operation
    newData,        \* history: the response body of the last operation
    lastOp,         \* history: the last operation
    nOps,           \* history: operations so far
    \* ---- normalizeNeoData (server) ----
    payload,        \* data.near_earth_objects, as Object.entries lists it
    hazardousOnly,  \* argument hazardousOnly
    normSort,       \* argument sortOrder
    result,         \* the returned DayGroup[]
    npc,            \* "call" before the call, "done" after it
    \* ---- normalizeNeo (server) ----
    rawNeo,         \* argument neo: one raw record
    neoResult,      \* the returned NEO, in a sequence (empty before the call)
    neoPc,          \* "call" before the call, "done" after it
    \* ---- GET /api/neos and GET /api/neos/[id] (server) ----
    apiKey,         \* process.env.NASA_API_KEY is set
    cache,          \* the feed route's Map: key -> {data, timestamp}
    detailCache,    \* the detail route's Map: key -> {data, timestamp}
    now,            \* Date.now(), in milliseconds
    pending,        \* the requests suspended at their upstream fetch
    response,       \* the last response sent, in a sequence, with its history
    cacheLog,       \* history: what each feed entry was computed from
    nRequests,      \* history: requests received so far
    nTicks,         \* history: steps of the clock so far
    \* ---- useRequireAuth (client hook) ----
    session,        \* useState<Session | null>(null)
    isAuthLoading,  \* useState(true): isLoading, as FeedPage names it
    isAuthenticated,\* useState(false)
    redirectTo,     \* the hook's argument
    pushes,         \* the paths router.push was called with, in order
    stored,         \* the session Supabase holds
    checkPc,        \* checkSession: "idle", "awaiting" getSession, "done"
    lastAuth,       \* history: the last step of the hook
    nAuthEvents,    \* history: auth state changes so far
    \* ---- lib/supabase: the favorites ----
    authUser,       \* the user supabase.auth.getUser() yields, if any
    neo_favorites,  \* the table: rows {user_id, neo_id, hazardous}
    favCall,        \* history: the last call, what it asked of the table and
                    \* what it returned
    \* ---- FeedPage and the calls of useNeoFeed in flight ----
    startDate,      \* useState: the first day of the range
    endDate,        \* useState: the last day of the range
    calls           \* every call of fetchData and loadMore: its arguments and
                    \* how far it is

hookVars == <<data, sortOrder, error, isLoading, isLoadingMore, rev, engine,
              prevData, newData, lastOp, nOps>>
normVars == <<payload, hazardousOnly, normSort, result, npc>>
neoVars == <<rawNeo, neoResult, neoPc>>
routeVars == <<apiKey, cache, detailCache, now, pending, response, cacheLog,
               nRequests, nTicks>>
authVars == <<session, isAuthLoading, isAuthenticated, redirectTo, pushes,
              stored, checkPc, lastAuth, nAuthEvents>>
favVars == <<authUser, neo_favorites, favCall>>
pageVars == <<startDate, endDate, calls>>
vars == <<hookVars, normVars, neoVars, routeVars, authVars, favVars, pageVars>>

----------------------------------------------------------------------------
(* Bounds *)

MaxDate == 2        \* calendar dates are 1..MaxDate
MaxId == 2          \* NEO ids are 1..MaxId
MaxNeos == 2        \* NEOs in one payload of the hook specification
MaxNormNeos == 3    \* NEOs in one payload of the normalizer specification
MaxOps == 2         \* operations of the hook in one behaviour
MaxApproaches == 3  \* approaches of the raw record given to normalizeNeo
MaxRequests == 2    \* requests the two routes receive in one behaviour
MaxTicks == 1       \* steps of the clock in one behaviour
MaxAuthEvents == 3  \* auth state changes in one behaviour

----------------------------------------------------------------------------
(* Values *)

Null == -1

\* Number.MAX_SAFE_INTEGER, scaled to TLC's 32-bit integers: what the code
\* needs of it is that it exceeds every epoch.
MAX_SAFE_INTEGER == 2147483647

SortOrders == {"approach_asc", "approach_desc", "size_asc", "size_desc"}

\* JavaScript truthiness of a number | null | undefined
Truthy(x) == x # Null /\ x # 0

Dates == 1..MaxDate
Ids == 1..MaxId

SeqsUpTo(S, n) == UNION {[1..k -> S] : k \in 0..n}

RECURSIVE SumLen(_, _)
SumLen(gs, i) == IF i = 0 THEN 0 ELSE Len(gs[i]) + SumLen(gs, i - 1)

Range(s) == {s[i] : i \in DOMAIN s}

----------------------------------------------------------------------------
(* Array.prototype.sort *)

\* a.date.localeCompare(b.date) on fixed-width YYYY-MM-DD strings
LocaleCompare(a, b) == IF a < b THEN -1 ELSE IF a > b THEN 1 ELSE 0

\* normalizeNeo: approaches by epoch, a falsy epoch as MAX_SAFE_INTEGER
EpochCmp(a, b) ==
    LET epochA == IF Truthy(a.epoch_date_close_approach)
                  THEN a.epoch_date_close_approach ELSE MAX_SAFE_INTEGER
        epochB == IF Truthy(b.epoch_date_close_approach)
                  THEN b.epoch_date_close_approach ELSE MAX_SAFE_INTEGER
    IN epochA - epochB

\* a.nearestApproach?.epoch
EpochOf(neo) ==
    IF neo.nearestApproach = <<>> THEN Null ELSE neo.nearestApproach[1].epoch

\* mutant: the two null checks in the other order
NormApproachAscCmp_BFirst(a, b) ==
    IF ~Truthy(EpochOf(b)) THEN -1
    ELSE IF ~Truthy(EpochOf(a)) THEN 1
    ELSE EpochOf(a) - EpochOf(b)

\* normalizeNeoData, sortOrder === "approach_asc"
NormApproachAscCmp(a, b) ==
    IF ~Truthy(EpochOf(a)) THEN 1
    ELSE IF ~Truthy(EpochOf(b)) THEN -1
    ELSE EpochOf(a) - EpochOf(b)

\* normalizeNeoData, sortOrder === "approach_desc"
NormApproachDescCmp(a, b) ==
    IF ~Truthy(EpochOf(a)) THEN 1
    ELSE IF ~Truthy(EpochOf(b)) THEN -1
    ELSE EpochOf(b) - EpochOf(a)

\* loadMore, sortOrder === "approach_asc"
MergeApproachAscCmp(a, b) ==
    IF ~Truthy(EpochOf(a)) THEN 1
    ELSE IF ~Truthy(EpochOf(b)) THEN -1
    ELSE EpochOf(a) - EpochOf(b)

\* loadMore, sortOrder === "approach_desc"
MergeApproachDescCmp(a, b) ==
    IF ~Truthy(EpochOf(a)) THEN 1
    ELSE IF ~Truthy(EpochOf(b)) THEN -1
    ELSE EpochOf(b) - EpochOf(a)

\* loadMore, sortOrder === "size_asc"
MergeSizeAscCmp(a, b) ==
    IF a.avgDiameterKm = Null THEN 1
    ELSE IF b.avgDiameterKm = Null THEN -1
    ELSE a.avgDiameterKm - b.avgDiameterKm

\* loadMore, sortOrder === "size_desc"
MergeSizeDescCmp(a, b) ==
    IF a.avgDiameterKm = Null THEN 1
    ELSE IF b.avgDiameterKm = Null THEN -1
    ELSE b.avgDiameterKm - a.avgDiameterKm

Compare(cmp, a, b) ==
    CASE cmp = "epoch" -> EpochCmp(a, b)
      [] cmp = "norm_approach_asc" -> NormApproachAscCmp(a, b)
      [] cmp = "norm_approach_desc" -> NormApproachDescCmp(a, b)
      [] cmp = "norm_date" -> LocaleCompare(a.date, b.date)
      [] cmp = "approach_asc" -> MergeApproachAscCmp(a, b)
      [] cmp = "approach_desc" -> MergeApproachDescCmp(a, b)
      [] cmp = "size_asc" -> MergeSizeAscCmp(a, b)
      [] cmp = "size_desc" -> MergeSizeDescCmp(a, b)
      [] cmp = "date" -> LocaleCompare(a.date, b.date)

(***************************************************************************)
(* The sort is stable and, for a consistent comparator, the same on every  *)
(* engine.  The NEO comparators above are not consistent: for two NEOs     *)
(* that both lack a key they answer 1 in both argument orders, and for     *)
(* such a comparator ECMAScript leaves the order to the implementation.    *)
(* The engines differ in the argument order of their calls:                *)
(*   "laterFirst"   V8 (Node.js, Chrome) and JavaScriptCore call           *)
(*                  comparefn(later, earlier) and move the later element   *)
(*                  forward when the answer is < 0;                        *)
(*   "earlierFirst" SpiderMonkey calls comparefn(earlier, later) and moves *)
(*                  the later element forward when the answer is > 0.      *)
(* Both are insertion sorts on arrays this short.                          *)
(***************************************************************************)
Engines == {"laterFirst", "earlierFirst"}

\* How many elements of the sorted prefix s[1..j] stay before item.
RECURSIVE InsertPos(_, _, _, _, _)
InsertPos(s, item, cmp, eng, j) ==
    IF j = 0 THEN 0
    ELSE LET moves == IF eng = "laterFirst"
                      THEN Compare(cmp, item, s[j]) < 0
                      ELSE Compare(cmp, s[j], item) > 0
         IN IF moves THEN InsertPos(s, item, cmp, eng, j - 1) ELSE j

RECURSIVE SortPrefix(_, _, _, _)
SortPrefix(s, cmp, eng, i) ==
    IF i = 0 THEN <<>>
    ELSE LET pre == SortPrefix(s, cmp, eng, i - 1)
             k == InsertPos(pre, s[i], cmp, eng, i - 1)
         IN SubSeq(pre, 1, k) \o <<s[i]>> \o SubSeq(pre, k + 1, i - 1)

ArraySort(s, cmp, eng) == SortPrefix(s, cmp, eng, Len(s))

\* The route runs on Node.js (export const runtime = 'nodejs'): V8.
ServerEngine == "laterFirst"

----------------------------------------------------------------------------
(* parseFloat *)

(***************************************************************************)
(* A string is the sequence of its characters.  A nullable string is a     *)
(* sequence of length 0 (null, undefined, absent) or 1; so is an optional  *)
(* object and a nullable number.  A JavaScript number read from a string   *)
(* is [nan |-> TRUE] or a value in thousandths.                            *)
(***************************************************************************)
Thousand == 1000

NaN == [nan |-> TRUE, val |-> 0]
Num(v) == [nan |-> FALSE, val |-> v]

DigitChars == <<"0", "1", "2", "3", "4", "5", "6", "7", "8", "9">>
Digits == Range(DigitChars)
DigitVal(c) == (CHOOSE n \in DOMAIN DigitChars : DigitChars[n] = c) - 1

\* the first place at or after i that holds no white space
RECURSIVE SkipWhiteSpace(_, _)
SkipWhiteSpace(s, i) ==
    IF i <= Len(s) /\ s[i] = " " THEN SkipWhiteSpace(s, i + 1) ELSE i

\* the first place at or after i that holds no digit
RECURSIVE DigitsEnd(_, _)
DigitsEnd(s, i) ==
    IF i <= Len(s) /\ s[i] \in Digits THEN DigitsEnd(s, i + 1) ELSE i

\* the digits s[i..j-1] read as a whole number
RECURSIVE WholeValue(_, _, _)
WholeValue(s, i, j) ==
    IF j <= i THEN 0 ELSE 10 * WholeValue(s, i, j - 1) + DigitVal(s[j - 1])

\* the digits s[i..j-1] read after the point, in units of unit
RECURSIVE FractionValue(_, _, _, _)
FractionValue(s, i, j, unit) ==
    IF j <= i THEN 0
    ELSE DigitVal(s[i]) * (unit \div 10) + FractionValue(s, i + 1, j, unit \div 10)

\* parseFloat: white space is skipped, then the longest prefix that is a
\* decimal literal (sign, digits, point, digits) is the value; NaN when no
\* prefix is one.  Exponents and Infinity are not among the strings modelled.
parseFloat(s) ==
    LET start == SkipWhiteSpace(s, 1)
        signed == start <= Len(s) /\ s[start] \in {"-", "+"}
        negative == signed /\ s[start] = "-"
        intFrom == IF signed THEN start + 1 ELSE start
        intTo == DigitsEnd(s, intFrom)
        hasPoint == intTo <= Len(s) /\ s[intTo] = "."
        fracFrom == intTo + 1
        fracTo == IF hasPoint THEN DigitsEnd(s, fracFrom) ELSE fracFrom
        hasDigits == intTo > intFrom \/ (hasPoint /\ fracTo > fracFrom)
        magnitude == WholeValue(s, intFrom, intTo) * Thousand
                     + (IF hasPoint
                        THEN FractionValue(s, fracFrom, fracTo, Thousand) ELSE 0)
    IN IF ~hasDigits THEN NaN
       ELSE Num(IF negative THEN 0 - magnitude ELSE magnitude)

\* x?.field ? parseFloat(x.field) : null, for the nested object x holding
\* the nullable string str: a string is truthy unless it is empty
parseNested(nested, str) ==
    IF nested # <<>> /\ str # <<>> /\ str[1] # <<>>
    THEN <<parseFloat(str[1])>>
    ELSE <<>>

----------------------------------------------------------------------------
(* lib/nasa: the normalizers *)

normalizeApproach(approach) ==
    [epoch |-> approach.epoch_date_close_approach,
     velocityKps |->
         parseNested(approach.relative_velocity,
                     IF approach.relative_velocity = <<>> THEN <<>>
                     ELSE approach.relative_velocity[1].kilometers_per_second),
     missDistanceKm |->
         parseNested(approach.miss_distance,
                     IF approach.miss_distance = <<>> THEN <<>>
                     ELSE approach.miss_distance[1].kilometers)]

normalizeNeo(neo) ==
    LET minDiameter == neo.estimated_diameter_min
        maxDiameter == neo.estimated_diameter_max
        avgDiameterKm == IF Truthy(minDiameter) /\ Truthy(maxDiameter)
                         THEN (minDiameter + maxDiameter) \div 2
                         ELSE Null
        approaches == neo.close_approach_data
        sortedApproaches == ArraySort(approaches, "epoch", ServerEngine)
        nearestApproach == IF Len(approaches) > 0
                           THEN <<normalizeApproach(sortedApproaches[1])>>
                           ELSE <<>>
    IN [id |-> neo.id,
        hazardous |-> neo.is_potentially_hazardous_asteroid,
        avgDiameterKm |-> avgDiameterKm,
        nearestApproach |-> nearestApproach,
        approachesCount |-> Len(approaches)]

\* .filter(neo => !hazardousOnly || neo.is_potentially_hazardous_asteroid)
HazardFilter(neos, hazOnly) ==
    LET Keep(neo) == ~hazOnly \/ neo.is_potentially_hazardous_asteroid
    IN SelectSeq(neos, Keep)

MapNormalizeNeo(neos) == [i \in DOMAIN neos |-> normalizeNeo(neos[i])]

\* the sort normalizeNeoData applies inside one date
NormSortNeos(normalizedNeos, sort) ==
    IF sort = "approach_asc"
    THEN ArraySort(normalizedNeos, "norm_approach_asc", ServerEngine)
    ELSE IF sort = "approach_desc"
    THEN ArraySort(normalizedNeos, "norm_approach_desc", ServerEngine)
    ELSE normalizedNeos

\* the callback of Object.entries(near_earth_objects).map
NormDayGroup(entry, hazOnly, sort) ==
    LET normalizedNeos ==
            NormSortNeos(MapNormalizeNeo(HazardFilter(entry.neos, hazOnly)), sort)
    IN [date |-> entry.date,
        count |-> Len(normalizedNeos),
        neos |-> normalizedNeos]

\* mutant: the groups in the key order of the payload
normalizeNeoData_KeyOrder(entries, hazOnly, sort) ==
    [i \in DOMAIN entries |-> NormDayGroup(entries[i], hazOnly, sort)]

normalizeNeoData(entries, hazOnly, sort) ==
    ArraySort([i \in DOMAIN entries |-> NormDayGroup(entries[i], hazOnly, sort)],
              "norm_date", ServerEngine)

----------------------------------------------------------------------------
(* useNeoFeed.loadMore: the setData updater *)

Revisions == {"current", "legacy"}

\* the policies the merge re-sorts under
ResortPolicies(r) ==
    IF r = "current" THEN SortOrders ELSE {"approach_asc", "approach_desc"}

\* new Map(prevData.map(group => [group.date, group])), Map.set: a Map keeps
\* insertion order, and setting a held key replaces the value in place.
RECURSIVE IndexOfDate(_, _, _)
IndexOfDate(map, date, i) ==
    IF i = 0 THEN 0
    ELSE IF map[i].date = date THEN i
    ELSE IndexOfDate(map, date, i - 1)

MapHas(map, date) == IndexOfDate(map, date, Len(map)) # 0
MapGet(map, date) == map[IndexOfDate(map, date, Len(map))]
MapSet(map, group) ==
    IF MapHas(map, group.date)
    THEN [map EXCEPT ![IndexOfDate(map, group.date, Len(map))] = group]
    ELSE Append(map, group)

RECURSIVE MapFrom(_, _)
MapFrom(groups, i) ==
    IF i = 0 THEN <<>> ELSE MapSet(MapFrom(groups, i - 1), groups[i])

\* mutant: the incoming group takes the held group's place
PushNew_Overwrite(existingGroup, group) == group

\* mutant: push without count++
PushNew_NoCount(existingGroup, group) ==
    LET existingIds == {existingGroup.neos[i].id : i \in DOMAIN existingGroup.neos}
        IsNew(neo) == neo.id \notin existingIds
        pushed == SelectSeq(group.neos, IsNew)
    IN [date |-> existingGroup.date,
        count |-> existingGroup.count,
        neos |-> existingGroup.neos \o pushed]

\* existingIds, then group.neos.forEach: push and count++
PushNew(existingGroup, group) ==
    LET existingIds == {existingGroup.neos[i].id : i \in DOMAIN existingGroup.neos}
        IsNew(neo) == neo.id \notin existingIds
        pushed == SelectSeq(group.neos, IsNew)
    IN [date |-> existingGroup.date,
        count |-> existingGroup.count + Len(pushed),
        neos |-> existingGroup.neos \o pushed]

\* "Re-sort if needed"
Resort(existingGroup, sort, r, eng) ==
    IF sort \in ResortPolicies(r)
    THEN [existingGroup EXCEPT !.neos = ArraySort(existingGroup.neos, sort, eng)]
    ELSE existingGroup

\* the body of newData.forEach
MergeGroup(existingDates, group, sort, r, eng) ==
    IF MapHas(existingDates, group.date)
    THEN MapSet(existingDates,
                Resort(PushNew(MapGet(existingDates, group.date), group),
                       sort, r, eng))
    ELSE MapSet(existingDates, group)

RECURSIVE MergeEach(_, _, _, _, _, _)
MergeEach(existingDates, incoming, i, sort, r, eng) ==
    IF i = 0 THEN existingDates
    ELSE MergeGroup(MergeEach(existingDates, incoming, i - 1, sort, r, eng),
                    incoming[i], sort, r, eng)

\* mutant: the Map's values, not sorted
SortByDate_MapOrder(groups, eng) == groups

\* Array.from(existingDates.values()).sort(localeCompare)
SortByDate(groups, eng) == ArraySort(groups, "date", eng)

\* mutant: every group of the merged list re-sorted, not only the extended
MergeData_ResortAll(held, incoming, sort, r, eng) ==
    LET merged == SortByDate(MergeEach(MapFrom(held, Len(held)), incoming,
                                       Len(incoming), sort, r, eng), eng)
    IN [i \in DOMAIN merged |-> Resort(merged[i], sort, r, eng)]

MergeData(held, incoming, sort, r, eng) ==
    SortByDate(MergeEach(MapFrom(held, Len(held)), incoming, Len(incoming),
                         sort, r, eng), eng)

----------------------------------------------------------------------------
(* GET /api/neos: the query parameters *)

(***************************************************************************)
(* part_006 holds the route twice; the second copy (from line 191) is an   *)
(* earlier revision that refuses every request without a hazardous         *)
(* parameter, against the route's own tests.  The route modelled is the    *)
(* first copy.  A query parameter is a nullable string: <<>> when the URL  *)
(* does not name it.  Dates are sequences of characters, the other         *)
(* parameters strings.                                                     *)
(***************************************************************************)

\* /^\d{4}-\d{2}-\d{2}$/
MatchesDateRegex(str) ==
    /\ Len(str) = 10
    /\ \A i \in {1, 2, 3, 4, 6, 7, 9, 10} : str[i] \in Digits
    /\ str[5] = "-"
    /\ str[8] = "-"

IsLeapYear(y) == ((y % 4) = 0 /\ (y % 100) # 0) \/ (y % 400) = 0

DaysInMonth(y, m) ==
    IF m = 2 THEN (IF IsLeapYear(y) THEN 29 ELSE 28)
    ELSE IF m \in {4, 6, 9, 11} THEN 30 ELSE 31

RECURSIVE DaysBeforeMonth(_, _)
DaysBeforeMonth(y, m) ==
    IF m <= 1 THEN 0 ELSE DaysBeforeMonth(y, m - 1) + DaysInMonth(y, m - 1)

\* days from 1970-01-01 to the first day of year y
DaysBeforeYear(y) ==
    365 * (y - 1970) + ((y - 1969) \div 4) - ((y - 1901) \div 100)
        + ((y - 1601) \div 400)

\* new Date(str).getTime() on Node.js, in days, for a str the regex has
\* accepted: V8 takes a month 1..12 and a day 1..31 and lets a day past the
\* end of its month run into the next month; Null is NaN (Invalid Date).
DateGetTime(str) ==
    LET y == WholeValue(str, 1, 5)
        m == WholeValue(str, 6, 8)
        d == WholeValue(str, 9, 11)
    IN IF m \in 1..12 /\ d \in 1..31
       THEN DaysBeforeYear(y) + DaysBeforeMonth(y, m) + d - 1
       ELSE Null

\* "2025-mm-dd"
IsoDate(m, d) ==
    <<"2", "0", "2", "5", "-",
      DigitChars[(m \div 10) + 1], DigitChars[(m % 10) + 1], "-",
      DigitChars[(d \div 10) + 1], DigitChars[(d % 10) + 1]>>

\* formatDate(today) and formatDate(weekLater): the server's day does not
\* change in the minutes a behaviour covers
defaultStartDate == IsoDate(1, 1)
defaultEndDate == IsoDate(1, 8)

\* searchParams.get(name) || fallback
OrDefault(param, fallback) ==
    IF param = <<>> \/ param[1] = <<>> THEN fallback ELSE param[1]

\* searchParams.get("sort") ?? "approach_asc"
sortParam(request) ==
    IF request.sort = <<>> THEN "approach_asc" ELSE request.sort[1]

\* QuerySchema.safeParse(...).success
QuerySchemaOk(request) ==
    /\ MatchesDateRegex(OrDefault(request.start_date, defaultStartDate))
    /\ MatchesDateRegex(OrDefault(request.end_date, defaultEndDate))
    /\ request.hazardous = <<>> \/ request.hazardous[1] \in {"true", "false"}
    /\ sortParam(request) \in SortOrders

\* validationResult.data
ValidatedData(request) ==
    [start_date |-> OrDefault(request.start_date, defaultStartDate),
     end_date |-> OrDefault(request.end_date, defaultEndDate),
     hazardous |-> request.hazardous,
     sort |-> sortParam(request)]

\* Math.floor((endDateObj.getTime() - startDateObj.getTime()) / msPerDay)
daysDiff(v) == DateGetTime(v.end_date) - DateGetTime(v.start_date)

\* the refusals before the cache is looked at: the message, "" when the
\* request passes
ValidationError(request) ==
    IF ~QuerySchemaOk(request) THEN "Invalid parameters"
    ELSE LET v == ValidatedData(request)
         IN IF DateGetTime(v.start_date) = Null \/ DateGetTime(v.end_date) = Null
            THEN "Invalid date format"
            ELSE IF daysDiff(v) < 0 THEN "End date must be after start date"
            ELSE IF daysDiff(v) > 7
            THEN "Date range cannot exceed 7 days (NASA API limitation)"
            ELSE ""

\* mutant: the key without the sort policy
cacheKey_NoSort(v) ==
    <<v.start_date, v.end_date,
      IF v.hazardous = <<>> THEN "" ELSE v.hazardous[1]>>

\* `${start_date}|${end_date}|${hazardous ?? ""}|${sort}`: the validated
\* parts hold no "|", so the key is the tuple of the parts
cacheKey(v) ==
    <<v.start_date, v.end_date,
      IF v.hazardous = <<>> THEN "" ELSE v.hazardous[1], v.sort>>

----------------------------------------------------------------------------
(* Inputs *)

\* Raw NEO records the schema admits (NasaNeoSchema): diameters in units
\* that keep (min+max)/2 whole.
\* A raw approach (NasaApproachSchema): relative_velocity and miss_distance
\* are optional objects holding a nullable string.
RawApproach(epochMillis, velocity, distance) ==
    [epoch_date_close_approach |-> epochMillis,
     relative_velocity |-> velocity,
     miss_distance |-> distance]

RawNeo(id, haz, dmin, dmax, epochs) ==
    [id |-> id,
     is_potentially_hazardous_asteroid |-> haz,
     estimated_diameter_min |-> dmin,
     estimated_diameter_max |-> dmax,
     close_approach_data |->
         [i \in DOMAIN epochs |-> RawApproach(epochs[i], <<>>, <<>>)]]

\* injective sequences of dates: the keys of near_earth_objects in any order
DateSeqs == {ds \in SeqsUpTo(Dates, MaxDate) : Cardinality(Range(ds)) = Len(ds)}

PayloadsOf(groups, maxTotal) ==
    UNION {
      {[i \in DOMAIN ds |-> [date |-> ds[i], neos |-> gs[i]]] :
         gs \in {g \in [DOMAIN ds -> groups] : SumLen(g, Len(ds)) <= maxTotal}}
      : ds \in DateSeqs}

\* the hook specification: any ids, repeated ones included
HookKinds == {<<TRUE, 1, 3, <<1>>>>, <<FALSE, 1, 1, <<0>>>>, <<TRUE, 0, 2, <<>>>>}
HookNeos == {RawNeo(id, k[1], k[2], k[3], k[4]) : id \in Ids, k \in HookKinds}
HookPayloads == PayloadsOf(SeqsUpTo(HookNeos, MaxNeos), MaxNeos)

\* what GET /api/neos can answer for a sort policy
Responses ==
    [s \in SortOrders |->
        {normalizeNeoData(p, h, s) : p \in HookPayloads, h \in BOOLEAN}]

----------------------------------------------------------------------------
(* The hook specification *)

InitNorm ==
    /\ payload = <<>>
    /\ hazardousOnly = FALSE
    /\ normSort = "approach_asc"
    /\ result = <<>>
    /\ npc = "idle"

InitHook ==
    /\ data = <<>>
    /\ sortOrder \in SortOrders
    /\ error = "none"
    /\ isLoading = TRUE
    /\ isLoadingMore = FALSE
    /\ rev \in Revisions
    /\ engine \in Engines
    /\ prevData = <<>>
    /\ newData = <<>>
    /\ lastOp = "init"
    /\ nOps = 0

InitNeo ==
    /\ rawNeo = <<>>
    /\ neoResult = <<>>
    /\ neoPc = "idle"

InitRoute ==
    /\ apiKey = TRUE
    /\ cache = <<>>
    /\ detailCache = <<>>
    /\ now = 0
    /\ pending = {}
    /\ response = <<>>
    /\ cacheLog = <<>>
    /\ nRequests = 0
    /\ nTicks = 0

\* useRequireAuth before its effect has run, nobody signed in
InitAuth ==
    /\ session = <<>>
    /\ isAuthLoading = TRUE
    /\ isAuthenticated = FALSE
    /\ redirectTo = "/login"
    /\ pushes = <<>>
    /\ stored = <<>>
    /\ checkPc = "idle"
    /\ lastAuth = "init"
    /\ nAuthEvents = 0

InitFav ==
    /\ authUser = <<>>
    /\ neo_favorites = {}
    /\ favCall = <<>>

\* FeedPage without URL parameters: today and addDays(today, 7)
InitPage ==
    /\ startDate = 1
    /\ endDate = 8
    /\ calls = <<>>

InitOthers == InitAuth /\ InitFav /\ InitPage

Init == InitHook /\ InitNorm /\ InitNeo /\ InitRoute /\ InitOthers

\* fetchData, the response ok: setIsLoading(true), setError(null),
\* setData(result), finally setIsLoading(false)
FetchData ==
    /\ nOps < MaxOps
    /\ \E r \in Responses[sortOrder] :
         /\ data' = r
         /\ newData' = r
    /\ prevData' = data
    /\ error' = "none"
    /\ isLoading' = FALSE
    /\ lastOp' = "fetchData"
    /\ nOps' = nOps + 1
    /\ UNCHANGED <<sortOrder, isLoadingMore, rev, engine>>
    /\ UNCHANGED <<normVars, neoVars, routeVars, authVars, favVars, pageVars>>

\* fetchData, the catch block: the date range is refused locally ("date", the
\* current revision only), the response is not ok or the call throws ("api")
FetchDataFails ==
    /\ nOps < MaxOps
    /\ \E e \in {"api", "date"} :
         /\ e = "date" => rev = "current"
         /\ error' = e
    /\ isLoading' = FALSE
    /\ prevData' = data
    /\ newData' = <<>>
    /\ lastOp' = "fetchDataFails"
    /\ nOps' = nOps + 1
    /\ UNCHANGED <<data, sortOrder, isLoadingMore, rev, engine>>
    /\ UNCHANGED <<normVars, neoVars, routeVars, authVars, favVars, pageVars>>

\* loadMore, the response ok: setIsLoadingMore(true), setError(null),
\* setData(prevData => merge), finally setIsLoadingMore(false)
LoadMore ==
    /\ nOps < MaxOps
    /\ \E r \in Responses[sortOrder] :
         /\ data' = MergeData(data, r, sortOrder, rev, engine)
         /\ newData' = r
    /\ prevData' = data
    /\ error' = "none"
    /\ isLoadingMore' = FALSE
    /\ lastOp' = "loadMore"
    /\ nOps' = nOps + 1
    /\ UNCHANGED <<sortOrder, isLoading, rev, engine>>
    /\ UNCHANGED <<normVars, neoVars, routeVars, authVars, favVars, pageVars>>

\* loadMore, the catch block
LoadMoreFails ==
    /\ nOps < MaxOps
    /\ \E e \in {"api", "date"} :
         /\ e = "date" => rev = "current"
         /\ error' = e
    /\ isLoadingMore' = FALSE
    /\ prevData' = data
    /\ newData' = <<>>
    /\ lastOp' = "loadMoreFails"
    /\ nOps' = nOps + 1
    /\ UNCHANGED <<data, sortOrder, isLoading, rev, engine>>
    /\ UNCHANGED <<normVars, neoVars, routeVars, authVars, favVars, pageVars>>

Next == FetchData \/ FetchDataFails \/ LoadMore \/ LoadMoreFails

Spec == Init /\ [][Next]_vars

----------------------------------------------------------------------------
(* The normalizer specification: normalizeNeoData on every payload *)

\* Within a date the id is the record's place in the raw array, so that a
\* record can be followed through the filter and the sort (normalizeNeoData
\* does not read the id).
NormKinds ==
    {<<1, 3, <<2, 1>>>>, <<1, 1, <<2>>>>, <<0, 2, <<0>>>>,
     <<3, 3, <<Null>>>>, <<1, 1, <<>>>>}
NormGroups ==
    {[i \in DOMAIN ks |->
        RawNeo(i, hs[i], ks[i][1], ks[i][2], ks[i][3])] :
       <<ks, hs>> \in {<<k, h>> \in SeqsUpTo(NormKinds, MaxNormNeos)
                                   \X SeqsUpTo(BOOLEAN, MaxNormNeos) :
                          Len(k) = Len(h)}}
NormPayloads == PayloadsOf(NormGroups, MaxNormNeos)

InitNormCall ==
    /\ payload \in NormPayloads
    /\ hazardousOnly \in BOOLEAN
    /\ normSort \in SortOrders
    /\ result = <<>>
    /\ npc = "call"

InitHookIdle ==
    /\ data = <<>>
    /\ sortOrder = "approach_asc"
    /\ error = "none"
    /\ isLoading = TRUE
    /\ isLoadingMore = FALSE
    /\ rev = "current"
    /\ engine = "laterFirst"
    /\ prevData = <<>>
    /\ newData = <<>>
    /\ lastOp = "init"
    /\ nOps = 0

NormalizeNeoData ==
    /\ npc = "call"
    /\ result' = normalizeNeoData(payload, hazardousOnly, normSort)
    /\ npc' = "done"
    /\ UNCHANGED <<payload, hazardousOnly, normSort>>
    /\ UNCHANGED <<hookVars, neoVars, routeVars, authVars, favVars, pageVars>>

NextNorm == NormalizeNeoData

InitNormSpec ==
    InitHookIdle /\ InitNormCall /\ InitNeo /\ InitRoute /\ InitOthers

SpecNorm == InitNormSpec /\ [][NextNorm]_vars

----------------------------------------------------------------------------
(* The record specification: normalizeNeo on every raw record *)

\* strings a nested field can hold, the decimal ones with their value in
\* thousandths: "15.1", "0", "-2.5", " 5"; and "", "abc", "1x"
Decimals ==
    {<<<<"1", "5", ".", "1">>, 15100>>, <<<<"0">>, 0>>,
     <<<<"-", "2", ".", "5">>, 0 - 2500>>, <<<<" ", "5">>, 5000>>}
StrSamples ==
    {d[1] : d \in Decimals} \cup {<<>>, <<"a", "b", "c">>, <<"1", "x">>}
OptStrings == {<<>>} \cup {<<str>> : str \in StrSamples}
Velocities ==
    {<<>>} \cup {<<[kilometers_per_second |-> os]>> : os \in OptStrings}
Distances == {<<>>} \cup {<<[kilometers |-> os]>> : os \in OptStrings}

NeoDiameters == {Null, 0, 2, 4}
NeoEpochs == {Null, 0, 1, 2}

\* close_approach_data: any epochs on up to MaxApproaches approaches, or one
\* approach with any nested strings
ApproachLists ==
    {[i \in DOMAIN es |-> RawApproach(es[i], <<>>, <<>>)] :
        es \in SeqsUpTo(NeoEpochs, MaxApproaches)}
    \cup {<<RawApproach(1, v, d)>> : v \in Velocities, d \in Distances}

RawNeos ==
    {[id |-> 1,
      is_potentially_hazardous_asteroid |-> FALSE,
      estimated_diameter_min |-> dmin,
      estimated_diameter_max |-> dmax,
      close_approach_data |-> aps] :
        dmin \in NeoDiameters, dmax \in NeoDiameters, aps \in ApproachLists}

InitNeoCall ==
    /\ rawNeo \in RawNeos
    /\ neoResult = <<>>
    /\ neoPc = "call"

NormalizeNeo ==
    /\ neoPc = "call"
    /\ neoResult' = <<normalizeNeo(rawNeo)>>
    /\ neoPc' = "done"
    /\ UNCHANGED rawNeo
    /\ UNCHANGED <<hookVars, normVars, routeVars, authVars, favVars, pageVars>>

NextNeo == NormalizeNeo

InitNeoSpec ==
    InitHookIdle /\ InitNorm /\ InitNeoCall /\ InitRoute /\ InitOthers

SpecNeo == InitNeoSpec /\ [][NextNeo]_vars

----------------------------------------------------------------------------
(* lib/nasa: fetchNeoFeed; the route's cache and catch block *)

\* the outcome of an awaited call: a thrown Error (its message and, when
\* fetchNeoFeed set them, its status and, of its headers, X-RateLimit-Reset)
\* or the value returned
Thrown(message, status, reset) ==
    [threw |-> TRUE, message |-> message, status |-> status, reset |-> reset,
     data |-> <<>>]
Returned(value) ==
    [threw |-> FALSE, message |-> "", status |-> Null, reset |-> <<>>,
     data |-> <<value>>]

\* mutant: only near_earth_objects is looked for
NasaFeedSchemaOk_MappingOnly(body) == body.near_earth_objects # <<>>

\* NasaFeedSchema.safeParse(data).success, for bodies whose NEO records are
\* well formed: element_count a number, near_earth_objects there
NasaFeedSchemaOk(body) ==
    body.element_count # Null /\ body.near_earth_objects # <<>>

\* upstream is what the NASA API does with the call: "unreachable" (fetch
\* rejects with TypeError: fetch failed), "status" (a response that is not
\* ok) or "body" (a 200 response and its JSON)
fetchNeoFeed(hasKey, upstream) ==
    IF ~hasKey
    THEN Thrown("NASA_API_KEY is not defined in environment variables", Null,
                <<>>)
    ELSE IF upstream.kind = "unreachable"
    THEN Thrown("fetch failed", Null, <<>>)
    ELSE IF upstream.kind = "status"
    THEN Thrown("NASA API error", upstream.status, upstream.reset)
    ELSE IF ~NasaFeedSchemaOk(upstream.body[1])
    THEN Thrown("Invalid response format from NASA API", Null, <<>>)
    ELSE Returned(upstream.body[1])

\* NasaDetailSchema.safeParse(data).success, likewise: the id is there
NasaDetailSchemaOk(body) == body.id # Null

\* the normalized record with every approach and, when asked for and there,
\* the orbital data (<<>> when the property is not set)
fetchNeoDetail(hasKey, upstream, withOrbit) ==
    IF ~hasKey
    THEN Thrown("NASA_API_KEY is not defined in environment variables", Null,
                <<>>)
    ELSE IF upstream.kind = "unreachable"
    THEN Thrown("fetch failed", Null, <<>>)
    ELSE IF upstream.kind = "status"
    THEN Thrown("NASA API error", upstream.status, upstream.reset)
    ELSE IF ~NasaDetailSchemaOk(upstream.body[1])
    THEN Thrown("Invalid response format from NASA API", Null, <<>>)
    ELSE LET body == upstream.body[1]
             normalized == normalizeNeo(body)
         IN Returned(
              [id |-> normalized.id,
               hazardous |-> normalized.hazardous,
               avgDiameterKm |-> normalized.avgDiameterKm,
               nearestApproach |-> normalized.nearestApproach,
               approachesCount |-> normalized.approachesCount,
               approaches |->
                   [i \in DOMAIN body.close_approach_data |->
                       normalizeApproach(body.close_approach_data[i])],
               orbital_data |->
                   IF withOrbit /\ body.orbital_data # <<>>
                   THEN body.orbital_data ELSE <<>>])

\* NextResponse.json(value, {status})
JsonArray(value) == [type |-> "array", value |-> value]
JsonObject(value) == [type |-> "object", value |-> value]
ErrorBody(message) == JsonObject([error |-> message])
Answer(status, body) == [status |-> status, body |-> body]

\* err.headers?.get("X-RateLimit-Reset") || "60"
retryAfter(err) ==
    IF err.reset # <<>> /\ err.reset[1] # "" THEN err.reset[1] ELSE "60"

RateLimitBody(err) ==
    JsonObject([error |-> "Rate limit exceeded", retryAfter |-> retryAfter(err)])

\* the catch block of GET /api/neos
CatchResponse(err) ==
    IF err.message = "fetch failed"
    THEN Answer(200, ErrorBody("Network connectivity issue"))
    ELSE IF err.status = 401
    THEN Answer(401, ErrorBody("NASA API key is invalid or missing"))
    ELSE IF err.status = 429 THEN Answer(429, RateLimitBody(err))
    ELSE Answer(500, ErrorBody("Failed to fetch NEO data"))

\* mutant: a lookup the NASA API answers 404 reported as a failure of the
\* server
DetailCatchResponse_No404(err) ==
    IF err.status = 401 THEN Answer(401, ErrorBody("NASA API key is invalid"))
    ELSE IF err.status = 429 THEN Answer(429, RateLimitBody(err))
    ELSE Answer(500, ErrorBody("Failed to fetch NEO detail"))

\* the catch block of GET /api/neos/[id]
DetailCatchResponse(err) ==
    IF err.message = "NASA_API_KEY is not defined in environment variables"
    THEN Answer(500, ErrorBody("API configuration error"))
    ELSE IF err.status = 401 THEN Answer(401, ErrorBody("NASA API key is invalid"))
    ELSE IF err.status = 404 THEN Answer(404, ErrorBody("Asteroid not found"))
    ELSE IF err.status = 429 THEN Answer(429, RateLimitBody(err))
    ELSE Answer(500, ErrorBody("Failed to fetch NEO detail"))

CACHE_TTL == 5 * 60 * 1000

\* mutant: an entry is served at the age of CACHE_TTL too
IsFresh_Inclusive(entry, t) == t - entry.timestamp <= CACHE_TTL

\* mutant: the comparison the wrong way round
IsFresh_Inverted(entry, t) == t - entry.timestamp > CACHE_TTL

\* Date.now() - cachedEntry.timestamp < CACHE_TTL
IsFresh(entry, t) == t - entry.timestamp < CACHE_TTL

\* cache.set(key, entry)
Put(map, key, entry) ==
    [k \in DOMAIN map \cup {key} |-> IF k = key THEN entry ELSE map[k]]

\* cache.get(cacheKey), as the history keeps it: whether an entry was there
\* and how old it was
Lookup(map, key, t) ==
    IF key \in DOMAIN map
    THEN <<[found |-> TRUE, age |-> t - map[key].timestamp]>>
    ELSE <<[found |-> FALSE, age |-> 0]>>

----------------------------------------------------------------------------
(* The route specification: GET /api/neos, its cache, and fetchData reading *)
(* the response                                                             *)

StartDates ==
    {<<>>, <<IsoDate(1, 3)>>, <<IsoDate(2, 30)>>,
     <<<<"2", "0", "2", "5", "-", "1", "-", "3">>>>}
EndDates ==
    {<<>>, <<IsoDate(1, 3)>>, <<IsoDate(1, 9)>>, <<IsoDate(2, 30)>>,
     <<IsoDate(13, 1)>>}
HazardousParams == {<<>>, <<"true">>}
SortParams == {<<>>, <<"size_desc">>, <<"newest">>}

FeedRequests ==
    [start_date : StartDates, end_date : EndDates,
     hazardous : HazardousParams, sort : SortParams]

\* bodies the NASA API can answer with: two that pass the schema, one
\* without near_earth_objects, one without element_count
FeedBodies ==
    {[element_count |-> 2,
      near_earth_objects |->
          <<<<[date |-> 1,
               neos |-> <<RawNeo(1, FALSE, 1, 3, <<2>>),
                          RawNeo(2, TRUE, 1, 1, <<1>>)>>]>>>>],
     [element_count |-> 1,
      near_earth_objects |->
          <<<<[date |-> 2, neos |-> <<RawNeo(1, TRUE, 3, 3, <<1>>)>>],
              [date |-> 1, neos |-> <<>>]>>>>],
     [element_count |-> 0, near_earth_objects |-> <<>>],
     [element_count |-> Null,
      near_earth_objects |->
          <<<<[date |-> 1, neos |-> <<RawNeo(1, TRUE, 1, 1, <<1>>)>>]>>>>]}

\* what the NASA API can do with a call: answer 200 with a body, answer with
\* a status that is not ok (a 429 with or without the X-RateLimit-Reset
\* header), or not be reached
Upstreams(bodies, statuses, resets) ==
    {[kind |-> "body", status |-> 200, body |-> <<b>>, reset |-> <<>>] :
        b \in bodies}
    \cup UNION {{[kind |-> "status", status |-> st, body |-> <<>>, reset |-> r] :
                    r \in IF st = 429 THEN resets ELSE {<<>>}} : st \in statuses}
    \cup {[kind |-> "unreachable", status |-> Null, body |-> <<>>,
           reset |-> <<>>]}

FeedUpstreams == Upstreams(FeedBodies, {401, 429, 503}, {<<>>})

\* the response and what the claims need to know of how it came about
Reply(route, n, request, key, lookup, answer, fromCache, upstream, wrote) ==
    <<[route |-> route, n |-> n, request |-> request, key |-> key,
       lookup |-> lookup, status |-> answer.status, body |-> answer.body,
       fromCache |-> fromCache, upstream |-> upstream, wrote |-> wrote,
       at |-> now, delivered |-> FALSE]>>

\* GET /api/neos up to its await: the key check, the validation, the cache
GetNeos ==
    /\ nRequests < MaxRequests
    /\ \E request \in FeedRequests :
         LET n == nRequests + 1
             refusal == ValidationError(request)
             v == ValidatedData(request)
             key == cacheKey(v)
             lookup == Lookup(cache, key, now)
         IN IF ~apiKey
            THEN /\ response' =
                      Reply("neos", n, request, <<>>, <<>>,
                            Answer(500, ErrorBody("NASA API key is not configured")),
                            FALSE, <<>>, FALSE)
                 /\ pending' = pending
            ELSE IF refusal # ""
            THEN /\ response' =
                      Reply("neos", n, request, <<>>, <<>>,
                            Answer(400, ErrorBody(refusal)), FALSE, <<>>, FALSE)
                 /\ pending' = pending
            ELSE IF key \in DOMAIN cache /\ IsFresh(cache[key], now)
            THEN /\ response' =
                      Reply("neos", n, request, <<key>>, lookup,
                            Answer(200, JsonArray(cache[key].data)),
                            TRUE, <<>>, FALSE)
                 /\ pending' = pending
            ELSE /\ pending' = pending \cup
                      {[route |-> "neos", n |-> n, request |-> request,
                        key |-> key, lookup |-> lookup]}
                 /\ response' = response
    /\ nRequests' = nRequests + 1
    /\ UNCHANGED <<apiKey, cache, detailCache, now, cacheLog, nTicks>>
    /\ UNCHANGED <<hookVars, normVars, neoVars, authVars, favVars, pageVars>>

\* GET /api/neos from its await on: fetchNeoFeed settles; normalize, store
\* and answer, or the catch block
GetNeosSettles ==
    /\ \E p \in {q \in pending : q.route = "neos"}, upstream \in FeedUpstreams :
         LET got == fetchNeoFeed(apiKey, upstream)
             v == ValidatedData(p.request)
         IN /\ pending' = pending \ {p}
            /\ IF got.threw
               THEN /\ response' =
                         Reply("neos", p.n, p.request, <<p.key>>, p.lookup,
                               CatchResponse(got), FALSE, <<upstream>>, FALSE)
                    /\ UNCHANGED <<cache, cacheLog>>
               ELSE LET normalizedData ==
                            normalizeNeoData(got.data[1].near_earth_objects[1],
                                             v.hazardous = <<"true">>, v.sort)
                    IN /\ cache' = Put(cache, p.key,
                                       [data |-> normalizedData,
                                        timestamp |-> now])
                       /\ cacheLog' = Put(cacheLog, p.key,
                                          [validated |-> v, upstream |-> upstream,
                                           answered |-> JsonArray(normalizedData)])
                       /\ response' =
                            Reply("neos", p.n, p.request, <<p.key>>, p.lookup,
                                  Answer(200, JsonArray(normalizedData)),
                                  FALSE, <<upstream>>, TRUE)
    /\ UNCHANGED <<apiKey, detailCache, now, nRequests, nTicks>>
    /\ UNCHANGED <<hookVars, normVars, neoVars, authVars, favVars, pageVars>>

\* GET /api/neos/[id]: the id of the path and the orbital parameter
DetailIds == {1, 2}
DetailRequests == [id : DetailIds, orbital : {<<>>, <<"true">>}]

\* bodies the NASA API can answer a lookup of id with: with and without
\* orbital_data, and one that fails the schema
DetailBodies(id) ==
    {[id |-> id,
      is_potentially_hazardous_asteroid |-> TRUE,
      estimated_diameter_min |-> 1,
      estimated_diameter_max |-> 3,
      close_approach_data |->
          <<RawApproach(2, <<>>, <<>>), RawApproach(1, <<>>, <<>>)>>,
      orbital_data |-> <<"orbit">>],
     [id |-> id,
      is_potentially_hazardous_asteroid |-> FALSE,
      estimated_diameter_min |-> 1,
      estimated_diameter_max |-> 1,
      close_approach_data |-> <<>>,
      orbital_data |-> <<>>],
     [id |-> Null,
      is_potentially_hazardous_asteroid |-> FALSE,
      estimated_diameter_min |-> 1,
      estimated_diameter_max |-> 1,
      close_approach_data |-> <<>>,
      orbital_data |-> <<>>]}

\* the X-RateLimit-Reset header of a 429: absent, "30", or empty
ResetHeaders == {<<>>, <<"30">>, <<"">>}

DetailUpstreams(id) ==
    Upstreams(DetailBodies(id), {401, 404, 429, 503}, ResetHeaders)

\* mutant: the key without the orbital flag
detailCacheKey_IdOnly(id, orbital) == <<id, FALSE>>

\* `${id}|${orbital}`
detailCacheKey(id, orbital) == <<id, orbital>>

\* GET /api/neos/[id] up to its await
GetNeo ==
    /\ nRequests < MaxRequests
    /\ \E request \in DetailRequests :
         LET n == nRequests + 1
             orbital == request.orbital = <<"true">>
             key == detailCacheKey(request.id, orbital)
             lookup == Lookup(detailCache, key, now)
         IN IF ~apiKey
            THEN /\ response' =
                      Reply("neo", n, request, <<>>, <<>>,
                            Answer(500, ErrorBody("API configuration error")),
                            FALSE, <<>>, FALSE)
                 /\ pending' = pending
            ELSE IF key \in DOMAIN detailCache /\ IsFresh(detailCache[key], now)
            THEN /\ response' =
                      Reply("neo", n, request, <<key>>, lookup,
                            Answer(200, JsonObject(detailCache[key].data)),
                            TRUE, <<>>, FALSE)
                 /\ pending' = pending
            ELSE /\ pending' = pending \cup
                      {[route |-> "neo", n |-> n, request |-> request,
                        key |-> key, lookup |-> lookup]}
                 /\ response' = response
    /\ nRequests' = nRequests + 1
    /\ UNCHANGED <<apiKey, cache, detailCache, now, cacheLog, nTicks>>
    /\ UNCHANGED <<hookVars, normVars, neoVars, authVars, favVars, pageVars>>

\* GET /api/neos/[id] from its await on
GetNeoSettles ==
    /\ \E p \in {q \in pending : q.route = "neo"} :
         \E upstream \in DetailUpstreams(p.request.id) :
            LET got == fetchNeoDetail(apiKey, upstream,
                                      p.request.orbital = <<"true">>)
            IN /\ pending' = pending \ {p}
               /\ IF got.threw
                  THEN /\ response' =
                            Reply("neo", p.n, p.request, <<p.key>>, p.lookup,
                                  DetailCatchResponse(got), FALSE, <<upstream>>,
                                  FALSE)
                       /\ detailCache' = detailCache
                  ELSE /\ detailCache' =
                            Put(detailCache, p.key,
                                [data |-> got.data[1], timestamp |-> now])
                       /\ response' =
                            Reply("neo", p.n, p.request, <<p.key>>, p.lookup,
                                  Answer(200, JsonObject(got.data[1])),
                                  FALSE, <<upstream>>, TRUE)
    /\ UNCHANGED <<apiKey, cache, now, cacheLog, nRequests, nTicks>>
    /\ UNCHANGED <<hookVars, normVars, neoVars, authVars, favVars, pageVars>>

\* the clock: a step just short of CACHE_TTL, or of CACHE_TTL
Tick ==
    /\ nTicks < MaxTicks
    /\ \E dt \in {CACHE_TTL - 1, CACHE_TTL} : now' = now + dt
    /\ nTicks' = nTicks + 1
    /\ UNCHANGED <<apiKey, cache, detailCache, pending, response, cacheLog,
                   nRequests>>
    /\ UNCHANGED <<hookVars, normVars, neoVars, authVars, favVars, pageVars>>

\* errorMessage.toLowerCase().includes('date'), on the route's messages
IncludesDate(message) ==
    message \in {"Invalid date format", "End date must be after start date",
                 "Date range cannot exceed 7 days (NASA API limitation)"}

\* fetchData on a response that is ok: setData(await response.json())
FetchDataResponseOk ==
    /\ response # <<>>
    /\ response[1].route = "neos"
    /\ ~response[1].delivered
    /\ response[1].status \in 200..299
    /\ data' = response[1].body.value
    /\ newData' = response[1].body
    /\ prevData' = data
    /\ error' = "none"
    /\ isLoading' = FALSE
    /\ lastOp' = "fetchData"
    /\ nOps' = nOps + 1
    /\ response' = <<[response[1] EXCEPT !.delivered = TRUE]>>
    /\ UNCHANGED <<sortOrder, isLoadingMore, rev, engine>>
    /\ UNCHANGED <<apiKey, cache, detailCache, now, pending, cacheLog,
                   nRequests, nTicks>>
    /\ UNCHANGED <<normVars, neoVars, authVars, favVars, pageVars>>

\* fetchData on a response that is not ok: the error is thrown and set
FetchDataResponseNotOk ==
    /\ response # <<>>
    /\ response[1].route = "neos"
    /\ ~response[1].delivered
    /\ response[1].status \notin 200..299
    /\ error' = IF response[1].status = 400
                   /\ IncludesDate(response[1].body.value.error)
                THEN "date" ELSE "api"
    /\ newData' = response[1].body
    /\ prevData' = data
    /\ isLoading' = FALSE
    /\ lastOp' = "fetchDataFails"
    /\ nOps' = nOps + 1
    /\ response' = <<[response[1] EXCEPT !.delivered = TRUE]>>
    /\ UNCHANGED <<data, sortOrder, isLoadingMore, rev, engine>>
    /\ UNCHANGED <<apiKey, cache, detailCache, now, pending, cacheLog,
                   nRequests, nTicks>>
    /\ UNCHANGED <<normVars, neoVars, authVars, favVars, pageVars>>

InitRouteServing ==
    /\ apiKey \in BOOLEAN
    /\ cache = <<>>
    /\ detailCache = <<>>
    /\ now = 0
    /\ pending = {}
    /\ response = <<>>
    /\ cacheLog = <<>>
    /\ nRequests = 0
    /\ nTicks = 0

InitRouteSpec ==
    InitHookIdle /\ InitNorm /\ InitNeo /\ InitRouteServing /\ InitOthers

NextRoute ==
    \/ GetNeos
    \/ GetNeosSettles
    \/ GetNeo
    \/ GetNeoSettles
    \/ Tick
    \/ FetchDataResponseOk
    \/ FetchDataResponseNotOk

SpecRoute == InitRouteSpec /\ [][NextRoute]_vars

\* the detail route on its own
NextDetail == GetNeo \/ GetNeoSettles \/ Tick

SpecDetail == InitRouteSpec /\ [][NextDetail]_vars

----------------------------------------------------------------------------
(* useRequireAuth *)

\* a Session, as far as the hook looks at it: there or not, and whose
UserIds == {1, 2}
Sessions == {<<>>} \cup {<<[user |-> u]>> : u \in UserIds}

\* the effect up to the await of getSession: setIsLoading(true); the
\* subscription to onAuthStateChange is set up in the same effect
CheckSession ==
    /\ checkPc = "idle"
    /\ isAuthLoading' = TRUE
    /\ checkPc' = "awaiting"
    /\ lastAuth' = "checkSession"
    /\ UNCHANGED <<session, isAuthenticated, redirectTo, pushes, stored,
                   nAuthEvents>>
    /\ UNCHANGED <<hookVars, normVars, neoVars, routeVars, favVars, pageVars>>

\* mutant: the early return leaves without the finally block
GetSessionResolves_NoFinally ==
    /\ checkPc = "awaiting"
    /\ LET currentSession == stored
       IN IF currentSession = <<>>
          THEN /\ pushes' = Append(pushes, redirectTo)
               /\ lastAuth' = "noSession"
               /\ UNCHANGED <<session, isAuthenticated, isAuthLoading>>
          ELSE /\ session' = currentSession
               /\ isAuthenticated' = TRUE
               /\ lastAuth' = "hasSession"
               /\ isAuthLoading' = FALSE
               /\ pushes' = pushes
    /\ checkPc' = "done"
    /\ UNCHANGED <<redirectTo, stored, nAuthEvents>>
    /\ UNCHANGED <<hookVars, normVars, neoVars, routeVars, favVars, pageVars>>

\* getSession resolves: without a session router.push(redirectTo) and
\* return, with one setSession and setIsAuthenticated(true); finally
\* setIsLoading(false)
GetSessionResolves ==
    /\ checkPc = "awaiting"
    /\ LET currentSession == stored
       IN IF currentSession = <<>>
          THEN /\ pushes' = Append(pushes, redirectTo)
               /\ lastAuth' = "noSession"
               /\ UNCHANGED <<session, isAuthenticated>>
          ELSE /\ session' = currentSession
               /\ isAuthenticated' = TRUE
               /\ lastAuth' = "hasSession"
               /\ pushes' = pushes
    /\ isAuthLoading' = FALSE
    /\ checkPc' = "done"
    /\ UNCHANGED <<redirectTo, stored, nAuthEvents>>
    /\ UNCHANGED <<hookVars, normVars, neoVars, routeVars, favVars, pageVars>>

\* getSession rejects: the catch block, then finally
GetSessionRejects ==
    /\ checkPc = "awaiting"
    /\ pushes' = Append(pushes, redirectTo)
    /\ isAuthLoading' = FALSE
    /\ checkPc' = "done"
    /\ lastAuth' = "rejected"
    /\ UNCHANGED <<session, isAuthenticated, redirectTo, stored, nAuthEvents>>
    /\ UNCHANGED <<hookVars, normVars, neoVars, routeVars, favVars, pageVars>>

\* the listener of onAuthStateChange: somebody signs in or out
AuthStateChange ==
    /\ checkPc # "idle"
    /\ nAuthEvents < MaxAuthEvents
    /\ \E currentSession \in Sessions :
         /\ stored' = currentSession
         /\ session' = currentSession
         /\ isAuthenticated' = (currentSession # <<>>)
         /\ pushes' = IF currentSession = <<>>
                      THEN Append(pushes, redirectTo) ELSE pushes
    /\ lastAuth' = "event"
    /\ nAuthEvents' = nAuthEvents + 1
    /\ UNCHANGED <<isAuthLoading, redirectTo, checkPc>>
    /\ UNCHANGED <<hookVars, normVars, neoVars, routeVars, favVars, pageVars>>

\* the hook as a page mounts it: any redirectTo, anybody or nobody signed in
InitAuthMounted ==
    /\ session = <<>>
    /\ isAuthLoading = TRUE
    /\ isAuthenticated = FALSE
    /\ redirectTo \in {"/login", "/"}
    /\ pushes = <<>>
    /\ stored \in Sessions
    /\ checkPc = "idle"
    /\ lastAuth = "init"
    /\ nAuthEvents = 0

InitAuthSpec ==
    /\ InitHookIdle /\ InitNorm /\ InitNeo /\ InitRoute
    /\ InitAuthMounted /\ InitFav /\ InitPage

NextAuth ==
    \/ CheckSession
    \/ GetSessionResolves
    \/ GetSessionRejects
    \/ AuthStateChange

SpecAuth == InitAuthSpec /\ [][NextAuth]_vars

\* React runs the effect after the first render, and the promise of
\* getSession settles
SpecAuthLive ==
    /\ InitAuthSpec
    /\ [][NextAuth]_vars
    /\ WF_vars(CheckSession)
    /\ WF_vars(GetSessionResolves \/ GetSessionRejects)

----------------------------------------------------------------------------
(* lib/supabase: the favorites *)

(***************************************************************************)
(* A row of neo_favorites is {user_id, neo_id, hazardous}; name,           *)
(* nearest_approach and avg_diameter_km are copied from the NEO as         *)
(* hazardous is.  upsert meets an existing row on (user_id, neo_id), the   *)
(* two columns removeFavorite and isFavorite match on.  A call is          *)
(* [returned, queries, table]: the value returned, what was asked of the   *)
(* table with which filter, and the table afterwards.                      *)
(***************************************************************************)
FavNeos == [id : {1, 2}, hazardous : BOOLEAN]

\* getCurrentUser: supabase.auth.getUser()
getCurrentUser(signedIn) == signedIn

Query(op, user_id, neo_id) == [op |-> op, user_id |-> user_id, neo_id |-> neo_id]

getFavorites(signedIn, table) ==
    LET user == getCurrentUser(signedIn)
    IN IF user = <<>>
       THEN [returned |-> {}, queries |-> <<>>, table |-> table]
       ELSE [returned |-> {row \in table : row.user_id = user[1]},
             queries |-> <<Query("select", user[1], Null)>>,
             table |-> table]

\* storeFails: the query comes back with an error
addFavorite(signedIn, neo, storeFails, table) ==
    LET user == getCurrentUser(signedIn)
    IN IF user = <<>>
       THEN [returned |-> <<>>, queries |-> <<>>, table |-> table]
       ELSE LET favorite == [user_id |-> user[1], neo_id |-> neo.id,
                             hazardous |-> neo.hazardous]
                met == {row \in table : /\ row.user_id = favorite.user_id
                                        /\ row.neo_id = favorite.neo_id}
            IN [returned |-> IF storeFails THEN <<>> ELSE <<favorite>>,
                queries |-> <<Query("upsert", favorite.user_id, favorite.neo_id)>>,
                table |-> IF storeFails THEN table
                          ELSE (table \ met) \cup {favorite}]

\* mutant: the delete matches on neo_id alone
removeFavorite_AnyUser(signedIn, neoId, storeFails, table) ==
    LET user == getCurrentUser(signedIn)
    IN IF user = <<>>
       THEN [returned |-> FALSE, queries |-> <<>>, table |-> table]
       ELSE [returned |-> ~storeFails,
             queries |-> <<Query("delete", user[1], neoId)>>,
             table |-> IF storeFails THEN table
                       ELSE {row \in table : row.neo_id # neoId}]

removeFavorite(signedIn, neoId, storeFails, table) ==
    LET user == getCurrentUser(signedIn)
    IN IF user = <<>>
       THEN [returned |-> FALSE, queries |-> <<>>, table |-> table]
       ELSE [returned |-> ~storeFails,
             queries |-> <<Query("delete", user[1], neoId)>>,
             table |-> IF storeFails THEN table
                       ELSE {row \in table : ~(/\ row.user_id = user[1]
                                               /\ row.neo_id = neoId)}]

isFavorite(signedIn, neoId, table) ==
    LET user == getCurrentUser(signedIn)
    IN IF user = <<>>
       THEN [returned |-> FALSE, queries |-> <<>>, table |-> table]
       ELSE [returned |-> \E row \in table : /\ row.user_id = user[1]
                                              /\ row.neo_id = neoId,
             queries |-> <<Query("select", user[1], neoId)>>,
             table |-> table]

\* what the history keeps of a call
Called(fn, call) ==
    /\ neo_favorites' = call.table
    /\ favCall' = <<[fn |-> fn, user |-> authUser, returned |-> call.returned,
                     queries |-> call.queries, before |-> neo_favorites]>>
    /\ UNCHANGED authUser
    /\ UNCHANGED <<hookVars, normVars, neoVars, routeVars, authVars, pageVars>>

GetFavorites == Called("getFavorites", getFavorites(authUser, neo_favorites))

AddFavorite ==
    \E neo \in FavNeos, storeFails \in BOOLEAN :
        Called("addFavorite",
               addFavorite(authUser, neo, storeFails, neo_favorites))

RemoveFavorite ==
    \E neo \in FavNeos, storeFails \in BOOLEAN :
        Called("removeFavorite",
               removeFavorite(authUser, neo.id, storeFails, neo_favorites))

IsFavorite ==
    \E neo \in FavNeos :
        Called("isFavorite", isFavorite(authUser, neo.id, neo_favorites))

\* somebody signs in, or the user signs out (signOut)
SignInOrOut ==
    /\ \E signedIn \in {<<>>} \cup {<<u>> : u \in UserIds} :
         /\ signedIn # authUser
         /\ authUser' = signedIn
    /\ favCall' = <<>>
    /\ UNCHANGED neo_favorites
    /\ UNCHANGED <<hookVars, normVars, neoVars, routeVars, authVars, pageVars>>

InitFavSpec ==
    /\ InitHookIdle /\ InitNorm /\ InitNeo /\ InitRoute
    /\ InitAuth /\ InitFav /\ InitPage

NextFav ==
    \/ GetFavorites
    \/ AddFavorite
    \/ RemoveFavorite
    \/ IsFavorite
    \/ SignInOrOut

SpecFav == InitFavSpec /\ [][NextFav]_vars

----------------------------------------------------------------------------
(* FeedPage and useNeoFeed, call by call *)

(***************************************************************************)
(* The page specification follows every call of fetchData and loadMore     *)
(* from its start to the arrival of its response, so that calls overlap as *)
(* the browser lets them.  A day is a number, an Invalid Date is Null.     *)
(* GET /api/neos is what it answers: 200 and the normalized feed of the    *)
(* range, 400 for a range it refuses, or another status; the NEOs of a day *)
(* are fixed, two a day, the later approach first in the raw order.  Every *)
(* NEO has an epoch and a diameter, so the comparators are consistent and  *)
(* every sort engine orders alike.                                         *)
(***************************************************************************)

\* addDays(date, amount)
addDays(date, amount) == IF date = Null THEN Null ELSE date + amount

\* validateDateRange(start, end).valid
validateDateRange(start, end) ==
    /\ start # Null /\ end # Null
    /\ ~(end < start)
    /\ ~(end - start > 7)

\* the call ends before its request: the current revision validates the
\* range; in the earlier one format(date, "yyyy-MM-dd") throws a RangeError
\* on an Invalid Date
RefusedLocally(r, start, end) ==
    IF r = "current" THEN ~validateDateRange(start, end)
    ELSE start = Null \/ end = Null

\* the error a call sets: its type in the current revision; the earlier one
\* sets an Error, named here as the current one would
ErrorSet(r, outcome) ==
    CASE outcome = "local" -> IF r = "current" THEN "date" ELSE "general"
      [] outcome = "refused" -> IF r = "current" THEN "date" ELSE "api"
      [] outcome = "notOk" -> "api"
      [] outcome = "throws" -> "general"

Call(kind, start, end, sort, refused) ==
    [kind |-> kind, start_date |-> start, end_date |-> end, sort |-> sort,
     state |-> IF refused THEN "done" ELSE "inflight",
     outcome |-> IF refused THEN "local" ELSE ""]

\* the state of the hook a call writes
HookState ==
    [isLoading |-> isLoading, isLoadingMore |-> isLoadingMore,
     error |-> error, calls |-> calls]

\* fetchData up to its await: setIsLoading(true), setError(null), then the
\* request; or the throw, setError and finally setIsLoading(false)
fetchDataStarts(h, start, end, sort, r) ==
    IF RefusedLocally(r, start, end)
    THEN [h EXCEPT !.isLoading = FALSE,
                   !.error = ErrorSet(r, "local"),
                   !.calls = Append(@, Call("fetchData", start, end, sort, TRUE))]
    ELSE [h EXCEPT !.isLoading = TRUE,
                   !.error = "none",
                   !.calls = Append(@, Call("fetchData", start, end, sort, FALSE))]

\* loadMore(newEndDate) up to its await: the range starts at the endDate the
\* callback closed over
loadMoreStarts(h, end, newEndDate, sort, r) ==
    IF RefusedLocally(r, end, newEndDate)
    THEN [h EXCEPT !.isLoadingMore = FALSE,
                   !.error = ErrorSet(r, "local"),
                   !.calls = Append(@, Call("loadMore", end, newEndDate, sort,
                                            TRUE))]
    ELSE [h EXCEPT !.isLoadingMore = TRUE,
                   !.error = "none",
                   !.calls = Append(@, Call("loadMore", end, newEndDate, sort,
                                            FALSE))]

Becomes(h) ==
    /\ isLoading' = h.isLoading
    /\ isLoadingMore' = h.isLoadingMore
    /\ error' = h.error
    /\ calls' = h.calls

\* the effect after the first render: fetchData()
Mount ==
    /\ calls = <<>>
    /\ Becomes(fetchDataStarts(HookState, startDate, endDate, sortOrder, rev))
    /\ prevData' = data
    /\ newData' = <<>>
    /\ lastOp' = "mount"
    /\ UNCHANGED <<data, sortOrder, rev, engine, nOps, startDate, endDate>>
    /\ UNCHANGED <<normVars, neoVars, routeVars, authVars, favVars>>

\* handleLoadMore: setEndDate(newEndDate), loadMore(newEndDate); the new
\* endDate makes a new fetchData, and the effect calls it
HandleLoadMore ==
    /\ calls # <<>>
    /\ nOps < MaxOps
    /\ LET newEndDate == addDays(endDate, 7)
           more == loadMoreStarts(HookState, endDate, newEndDate, sortOrder, rev)
       IN /\ endDate' = newEndDate
          /\ Becomes(fetchDataStarts(more, startDate, newEndDate, sortOrder, rev))
    /\ prevData' = data
    /\ newData' = <<>>
    /\ lastOp' = "handleLoadMore"
    /\ nOps' = nOps + 1
    /\ UNCHANGED <<data, sortOrder, rev, engine, startDate>>
    /\ UNCHANGED <<normVars, neoVars, routeVars, authVars, favVars>>

\* handleSortChange: setSortOrder(value); the new sortOrder makes a new
\* fetchData, and the effect calls it
HandleSortChange ==
    /\ calls # <<>>
    /\ nOps < MaxOps
    /\ \E value \in SortOrders \ {sortOrder} :
         /\ sortOrder' = value
         /\ Becomes(fetchDataStarts(HookState, startDate, endDate, value, rev))
    /\ prevData' = data
    /\ newData' = <<>>
    /\ lastOp' = "handleSortChange"
    /\ nOps' = nOps + 1
    /\ UNCHANGED <<data, rev, engine, startDate, endDate>>
    /\ UNCHANGED <<normVars, neoVars, routeVars, authVars, favVars>>

\* applyFilters: refetch()
ApplyFilters ==
    /\ calls # <<>>
    /\ nOps < MaxOps
    /\ Becomes(fetchDataStarts(HookState, startDate, endDate, sortOrder, rev))
    /\ prevData' = data
    /\ newData' = <<>>
    /\ lastOp' = "applyFilters"
    /\ nOps' = nOps + 1
    /\ UNCHANGED <<data, sortOrder, rev, engine, startDate, endDate>>
    /\ UNCHANGED <<normVars, neoVars, routeVars, authVars, favVars>>

\* what the NASA API has for a day
WorldNeos(day) ==
    <<RawNeo(2 * day - 1, FALSE, 1, 3, <<2>>), RawNeo(2 * day, TRUE, 1, 1, <<1>>)>>

\* the route refuses the range of the call with 400
RouteRefuses(c) ==
    c.end_date - c.start_date < 0 \/ c.end_date - c.start_date > 7

\* the body of the route's 200 answer to the call
RouteBody(c) ==
    normalizeNeoData([i \in 1..(c.end_date - c.start_date + 1) |->
                         [date |-> c.start_date + i - 1,
                          neos |-> WorldNeos(c.start_date + i - 1)]],
                     FALSE, c.sort)

\* how the request of a call can end: the route answers 200 ("ok"), 400 for
\* the range ("refused") or another status ("notOk"), or fetch rejects
Outcomes(c) ==
    IF RouteRefuses(c) THEN {"refused", "throws"} ELSE {"ok", "notOk", "throws"}

Settled(i, outcome) ==
    calls' = [calls EXCEPT ![i].state = "done", ![i].outcome = outcome]

\* mutant: setIsLoading(false) on the success path only
FetchDataSettles_NoFinally ==
    /\ \E i \in DOMAIN calls :
         /\ calls[i].kind = "fetchData"
         /\ calls[i].state = "inflight"
         /\ \E outcome \in Outcomes(calls[i]) :
              /\ Settled(i, outcome)
              /\ IF outcome = "ok"
                 THEN /\ data' = RouteBody(calls[i])
                      /\ newData' = RouteBody(calls[i])
                      /\ error' = error
                      /\ isLoading' = FALSE
                      /\ lastOp' = "fetchData"
                 ELSE /\ error' = ErrorSet(rev, outcome)
                      /\ newData' = <<>>
                      /\ data' = data
                      /\ isLoading' = isLoading
                      /\ lastOp' = "fetchDataFails"
    /\ prevData' = data
    /\ UNCHANGED <<sortOrder, isLoadingMore, rev, engine, nOps, startDate,
                   endDate>>
    /\ UNCHANGED <<normVars, neoVars, routeVars, authVars, favVars>>

\* fetchData from its await on: setData(result), or the throw and setError;
\* finally setIsLoading(false)
FetchDataSettles ==
    /\ \E i \in DOMAIN calls :
         /\ calls[i].kind = "fetchData"
         /\ calls[i].state = "inflight"
         /\ \E outcome \in Outcomes(calls[i]) :
              /\ Settled(i, outcome)
              /\ IF outcome = "ok"
                 THEN /\ data' = RouteBody(calls[i])
                      /\ newData' = RouteBody(calls[i])
                      /\ error' = error
                      /\ lastOp' = "fetchData"
                 ELSE /\ error' = ErrorSet(rev, outcome)
                      /\ newData' = <<>>
                      /\ data' = data
                      /\ lastOp' = "fetchDataFails"
    /\ isLoading' = FALSE
    /\ prevData' = data
    /\ UNCHANGED <<sortOrder, isLoadingMore, rev, engine, nOps, startDate,
                   endDate>>
    /\ UNCHANGED <<normVars, neoVars, routeVars, authVars, favVars>>

\* mutant: the catch block empties the list
LoadMoreSettles_ClearsOnError ==
    /\ \E i \in DOMAIN calls :
         /\ calls[i].kind = "loadMore"
         /\ calls[i].state = "inflight"
         /\ \E outcome \in Outcomes(calls[i]) :
              /\ Settled(i, outcome)
              /\ IF outcome = "ok"
                 THEN /\ data' = MergeData(data, RouteBody(calls[i]),
                                           calls[i].sort, rev, engine)
                      /\ newData' = RouteBody(calls[i])
                      /\ error' = error
                      /\ lastOp' = "loadMore"
                 ELSE /\ error' = ErrorSet(rev, outcome)
                      /\ newData' = <<>>
                      /\ data' = <<>>
                      /\ lastOp' = "loadMoreFails"
    /\ isLoadingMore' = FALSE
    /\ prevData' = data
    /\ UNCHANGED <<sortOrder, isLoading, rev, engine, nOps, startDate, endDate>>
    /\ UNCHANGED <<normVars, neoVars, routeVars, authVars, favVars>>

\* loadMore from its await on: setData(prevData => merge) under the
\* sortOrder the callback closed over, or the throw and setError; finally
\* setIsLoadingMore(false)
LoadMoreSettles ==
    /\ \E i \in DOMAIN calls :
         /\ calls[i].kind = "loadMore"
         /\ calls[i].state = "inflight"
         /\ \E outcome \in Outcomes(calls[i]) :
              /\ Settled(i, outcome)
              /\ IF outcome = "ok"
                 THEN /\ data' = MergeData(data, RouteBody(calls[i]),
                                           calls[i].sort, rev, engine)
                      /\ newData' = RouteBody(calls[i])
                      /\ error' = error
                      /\ lastOp' = "loadMore"
                 ELSE /\ error' = ErrorSet(rev, outcome)
                      /\ newData' = <<>>
                      /\ data' = data
                      /\ lastOp' = "loadMoreFails"
    /\ isLoadingMore' = FALSE
    /\ prevData' = data
    /\ UNCHANGED <<sortOrder, isLoading, rev, engine, nOps, startDate, endDate>>
    /\ UNCHANGED <<normVars, neoVars, routeVars, authVars, favVars>>

\* FeedPage as it mounts: sort and end_date as the URL has them (the default
\* week, a single day, or a date that does not parse), the hook in either
\* revision
InitPageMounted ==
    /\ data = <<>>
    /\ sortOrder \in {"approach_asc", "approach_desc"}
    /\ error = "none"
    /\ isLoading = TRUE
    /\ isLoadingMore = FALSE
    /\ rev \in Revisions
    /\ engine = "laterFirst"
    /\ prevData = <<>>
    /\ newData = <<>>
    /\ lastOp = "init"
    /\ nOps = 0
    /\ startDate = 1
    /\ endDate \in {1, 8, Null}
    /\ calls = <<>>

InitPageSpec ==
    /\ InitPageMounted
    /\ InitNorm /\ InitNeo /\ InitRoute /\ InitAuth /\ InitFav

NextPage ==
    \/ Mount
    \/ HandleLoadMore
    \/ HandleSortChange
    \/ ApplyFilters
    \/ FetchDataSettles
    \/ LoadMoreSettles

SpecPage == InitPageSpec /\ [][NextPage]_vars

\* React runs the effect after the first render, and every request settles
SpecPageLive ==
    /\ InitPageSpec
    /\ [][NextPage]_vars
    /\ WF_vars(Mount)
    /\ WF_vars(FetchDataSettles)
    /\ WF_vars(LoadMoreSettles)

----------------------------------------------------------------------------
(* What the claims speak of *)

DatesOf(groups) == {groups[i].date : i \in DOMAIN groups}
IdsOf(group) == {group.neos[i].id : i \in DOMAIN group.neos}
GroupOf(groups, date) == CHOOSE g \in Range(groups) : g.date = date

\* the key a sort policy orders by; Null when the NEO has none
KeyOf(neo, sort) ==
    IF sort \in {"approach_asc", "approach_desc"}
    THEN EpochOf(neo) ELSE neo.avgDiameterKm

\* neos is ordered as the policy asks: keyed NEOs ascending (descending) by
\* key, every NEO without a key after every NEO with one
OrderedBy(neos, sort) ==
    \A i, j \in DOMAIN neos :
        i < j =>
          LET ki == KeyOf(neos[i], sort)
              kj == KeyOf(neos[j], sort)
          IN /\ ki = Null => kj = Null
             /\ (ki # Null /\ kj # Null) =>
                  IF sort \in {"approach_asc", "size_asc"}
                  THEN ki <= kj ELSE ki >= kj

\* the groups of data the last merge added NEOs to
Extended(date) ==
    /\ date \in DatesOf(prevData)
    /\ Len(GroupOf(data, date).neos) > Len(GroupOf(prevData, date).neos)

----------------------------------------------------------------------------
(* Claims on the hook, under Spec *)

\* C1: in every date group of the held list, after any fetches and merges,
\* the ids of the NEOs are pairwise distinct.
C1_HeldIdsDistinct ==
    \A g \in DOMAIN data :
        \A i, j \in DOMAIN data[g].neos :
            i # j => data[g].neos[i].id # data[g].neos[j].id

\* C2: merging the same incoming list a second time changes nothing: the
\* list after a merge is a fixed point of merging that incoming list.
C2_MergeIdempotent ==
    lastOp = "loadMore" =>
        MergeData(data, newData, sortOrder, rev, engine) = data

\* C3: a merge keeps every held date and, under it, every held NEO id.
C3_MergeKeepsHeld ==
    lastOp = "loadMore" =>
        \A g \in DOMAIN prevData :
            /\ prevData[g].date \in DatesOf(data)
            /\ IdsOf(prevData[g]) \subseteq IdsOf(GroupOf(data, prevData[g].date))

C3_Witness ==
    /\ lastOp = "loadMore"
    /\ \E d \in DatesOf(prevData) : Extended(d)
    /\ \E d \in DatesOf(prevData) :
          d \in DatesOf(newData) /\ IdsOf(GroupOf(prevData, d)) # {}
    /\ DatesOf(newData) \ DatesOf(prevData) # {}

\* C4: every group normalizeNeoData returns, and every group of the held
\* list after any merges, has count = the length of its neos.
C4_CountIsLength ==
    /\ \A g \in DOMAIN data : data[g].count = Len(data[g].neos)
    /\ \A g \in DOMAIN newData : newData[g].count = Len(newData[g].neos)

C4_Witness ==
    /\ lastOp = "loadMore"
    /\ \E d \in DatesOf(prevData) :
          /\ Extended(d)
          /\ GroupOf(data, d).count = GroupOf(prevData, d).count + 2

\* C5: the merged list has exactly the dates held or incoming, each once,
\* in strictly ascending order.
C5_MergeDates ==
    lastOp = "loadMore" =>
        /\ DatesOf(data) = DatesOf(prevData) \cup DatesOf(newData)
        /\ \A i, j \in DOMAIN data : i < j => data[i].date < data[j].date

C5_Witness ==
    /\ lastOp = "loadMore"
    /\ \E d \in DatesOf(prevData) : d \notin DatesOf(newData)
    /\ \E d \in DatesOf(newData) :
          /\ d \notin DatesOf(prevData)
          /\ \E e \in DatesOf(prevData) : d < e
    /\ Len(data) = 2

\* C6: after a merge under policy P, every group the merge extended is
\* ordered by P (keys ascending or descending, NEOs without a key last).
C6_ExtendedGroupsOrdered ==
    lastOp = "loadMore" =>
        \A d \in DatesOf(data) :
            Extended(d) => OrderedBy(GroupOf(data, d).neos, sortOrder)

\* where the group of a date stands in a list
PlaceOf(groups, date) == CHOOSE i \in DOMAIN groups : groups[i].date = date

\* C25: a merge leaves every held group whose date is not in the incoming
\* list as it was (its NEOs, their order, its count), and a date that was not
\* held stands after every held date before it and before every held date
\* after it.
C25_MergeFrame ==
    lastOp = "loadMore" =>
        /\ \A g \in DOMAIN prevData :
              prevData[g].date \notin DatesOf(newData) =>
                 /\ prevData[g].date \in DatesOf(data)
                 /\ GroupOf(data, prevData[g].date) = prevData[g]
        /\ \A d \in DatesOf(newData) \ DatesOf(prevData) :
              /\ d \in DatesOf(data)
              /\ \A e \in DatesOf(prevData) :
                    e < d <=> PlaceOf(data, e) < PlaceOf(data, d)

C25_Witness ==
    /\ lastOp = "loadMore"
    /\ sortOrder = "size_asc"
    /\ \E g \in DOMAIN prevData :
          /\ prevData[g].date \notin DatesOf(newData)
          /\ Len(prevData[g].neos) = 2
          /\ prevData[g].neos[1].avgDiameterKm > prevData[g].neos[2].avgDiameterKm
          /\ \E d \in DatesOf(newData) : d < prevData[g].date
    /\ data[1].date \notin DatesOf(prevData)

----------------------------------------------------------------------------
(* Claims on normalizeNeoData, under SpecNorm *)

\* C7: under size_asc (size_desc) every returned group has its NEOs in
\* non-decreasing (non-increasing) avgDiameterKm order, null diameters last.
C7_SizeOrdered ==
    (npc = "done" /\ normSort \in {"size_asc", "size_desc"}) =>
        \A g \in DOMAIN result : OrderedBy(result[g].neos, normSort)

\* C8: under approach_asc (approach_desc) every returned group has its NEOs
\* with a nearest-approach epoch in non-decreasing (non-increasing) epoch
\* order, and those without one after them.
C8_ApproachOrdered ==
    (npc = "done" /\ normSort \in {"approach_asc", "approach_desc"}) =>
        \A g \in DOMAIN result : OrderedBy(result[g].neos, normSort)

\* C9: two NEOs of a returned group whose nearest-approach epochs tie (equal,
\* or both absent) stand in the order of the raw array (the id is the place
\* in the raw array).
C9_TiesKeepRawOrder ==
    npc = "done" =>
        \A g \in DOMAIN result :
            \A i, j \in DOMAIN result[g].neos :
                (i < j /\ EpochOf(result[g].neos[i]) = EpochOf(result[g].neos[j]))
                    => result[g].neos[i].id < result[g].neos[j].id

C9_Witness ==
    /\ npc = "done"
    /\ normSort = "approach_desc"
    /\ \E g \in DOMAIN result :
          /\ Len(result[g].neos) = 3
          /\ result[g].neos[1].id = 2
          /\ EpochOf(result[g].neos[2]) = Null
          /\ EpochOf(result[g].neos[3]) = Null

\* the hazardous raw records of a date of the payload
HazardousIds(entry) ==
    {entry.neos[i].id : i \in {k \in DOMAIN entry.neos :
                                 entry.neos[k].is_potentially_hazardous_asteroid}}

\* C10: with hazardousOnly the result has a group for exactly the dates of
\* the payload that hold a hazardous NEO, each with exactly the hazardous
\* NEOs of its date and count their number.
C10_HazardousOnlyGroups ==
    (npc = "done" /\ hazardousOnly) =>
        /\ DatesOf(result) =
              {payload[e].date : e \in {k \in DOMAIN payload :
                                          HazardousIds(payload[k]) # {}}}
        /\ \A e \in DOMAIN payload :
              HazardousIds(payload[e]) # {} =>
                 LET g == GroupOf(result, payload[e].date)
                 IN /\ IdsOf(g) = HazardousIds(payload[e])
                    /\ g.count = Cardinality(HazardousIds(payload[e]))
                    /\ Len(g.neos) = g.count

\* C14: without the hazard filter normalizeNeoData returns one group per
\* date key of the payload, in strictly ascending date order whatever the
\* order of the keys.
C14_OneGroupPerDateAscending ==
    (npc = "done" /\ ~hazardousOnly) =>
        /\ Len(result) = Len(payload)
        /\ DatesOf(result) = DatesOf(payload)
        /\ \A i, j \in DOMAIN result : i < j => result[i].date < result[j].date

C14_Witness ==
    /\ npc = "done"
    /\ ~hazardousOnly
    /\ Len(payload) = 2
    /\ payload[1].date > payload[2].date
    /\ result[1].date = payload[2].date

----------------------------------------------------------------------------
(* Claims on normalizeNeo and normalizeApproach, under SpecNeo *)

\* the epochs of the raw approaches that are not null
NonNullEpochs(aps) ==
    {aps[i].epoch_date_close_approach : i \in DOMAIN aps} \ {Null}

\* C11: nearestApproach is null exactly when the raw record has no
\* approach; otherwise its epoch is the least non-null epoch of the raw
\* approaches (0 counts as an epoch), and null only when every epoch is null.
C11_NearestIsEarliest ==
    neoPc = "done" =>
        LET aps == rawNeo.close_approach_data
            nearest == neoResult[1].nearestApproach
        IN /\ nearest = <<>> <=> Len(aps) = 0
           /\ Len(aps) > 0 =>
                 IF NonNullEpochs(aps) = {}
                 THEN nearest[1].epoch = Null
                 ELSE /\ nearest[1].epoch \in NonNullEpochs(aps)
                      /\ \A e \in NonNullEpochs(aps) : nearest[1].epoch <= e

\* C12: avgDiameterKm is (min + max) / 2 when both bounds are numbers, 0
\* included, and null exactly when a bound is absent.
C12_AvgDiameter ==
    neoPc = "done" =>
        LET dmin == rawNeo.estimated_diameter_min
            dmax == rawNeo.estimated_diameter_max
        IN neoResult[1].avgDiameterKm =
              IF dmin # Null /\ dmax # Null THEN (dmin + dmax) \div 2 ELSE Null

\* what the claim asks of one parsed field: null when the nested object, the
\* field or its text is missing or the text holds no digit, the value when
\* the text is a decimal, and never NaN
ParsedAsClaimed(nested, str, out) ==
    /\ out # <<NaN>>
    /\ (nested = <<>> \/ str = <<>> \/ str[1] = <<>>) => out = <<>>
    /\ (nested # <<>> /\ str # <<>>) =>
          /\ \A d \in Decimals : str[1] = d[1] => out = <<Num(d[2])>>
          /\ (\A i \in DOMAIN str[1] : str[1][i] \notin Digits) => out = <<>>

\* C13: velocityKps and missDistanceKm are the parsed number when the raw
\* nested string is there and parses, null in every other case, never NaN;
\* and the enclosing record is normalized all the same.
C13_ParsedOrNull ==
    (neoPc = "done" /\ Len(rawNeo.close_approach_data) = 1) =>
        LET a == rawNeo.close_approach_data[1]
            out == neoResult[1].nearestApproach[1]
        IN /\ ParsedAsClaimed(a.relative_velocity,
                              IF a.relative_velocity = <<>> THEN <<>>
                              ELSE a.relative_velocity[1].kilometers_per_second,
                              out.velocityKps)
           /\ ParsedAsClaimed(a.miss_distance,
                              IF a.miss_distance = <<>> THEN <<>>
                              ELSE a.miss_distance[1].kilometers,
                              out.missDistanceKm)

----------------------------------------------------------------------------
(* Claims on the routes, under SpecRoute *)

\* the last response, when there is one and it is the feed route's
FeedResponse == response # <<>> /\ response[1].route = "neos"

\* a body that NasaFeedSchema refuses
FailsFeedSchema(body) ==
    body.element_count = Null \/ body.near_earth_objects = <<>>

\* C15: a payload that fails the schema is never normalized: the route
\* answers with an error status and an error body, writes no cache entry,
\* and no cache entry was ever computed from such a payload.
C15_SchemaFailureIsAnError ==
    /\ (/\ FeedResponse
        /\ response[1].upstream # <<>>
        /\ response[1].upstream[1].kind = "body"
        /\ FailsFeedSchema(response[1].upstream[1].body[1]))
       => /\ response[1].status >= 400
          /\ response[1].body.type = "object"
          /\ ~response[1].wrote
    /\ \A k \in DOMAIN cacheLog :
          ~FailsFeedSchema(cacheLog[k].upstream.body[1])
    /\ DOMAIN cache = DOMAIN cacheLog

C15_Witness ==
    /\ FeedResponse
    /\ response[1].upstream # <<>>
    /\ response[1].upstream[1].kind = "body"
    /\ response[1].upstream[1].body[1].element_count = Null
    /\ response[1].status = 500
    /\ response[1].n = 2
    /\ DOMAIN cache # {}

\* str names a day of the calendar as YYYY-MM-DD
IsCalendarDate(str) ==
    /\ MatchesDateRegex(str)
    /\ WholeValue(str, 6, 8) \in 1..12
    /\ WholeValue(str, 9, 11) \in
          1..DaysInMonth(WholeValue(str, 1, 5), WholeValue(str, 6, 8))

\* the requests the claim wants refused: a date that is malformed, the end
\* before the start, or more than 7 days from start to end
MustRefuse(request) ==
    LET v == ValidatedData(request)
    IN \/ ~IsCalendarDate(v.start_date)
       \/ ~IsCalendarDate(v.end_date)
       \/ DateGetTime(v.end_date) < DateGetTime(v.start_date)
       \/ DateGetTime(v.end_date) - DateGetTime(v.start_date) > 7

\* C16: (with the API key configured) a request with a malformed date, an
\* inverted range or a span of more than 7 days is answered 400, without a
\* call of fetchNeoFeed and without the cache being read or written.
C16_BadRangeRefused ==
    apiKey =>
        /\ \A p \in pending : p.route = "neos" => ~MustRefuse(p.request)
        /\ (FeedResponse /\ MustRefuse(response[1].request))
           => /\ response[1].status = 400
              /\ response[1].upstream = <<>>
              /\ response[1].lookup = <<>>
              /\ ~response[1].fromCache
              /\ ~response[1].wrote

\* the request found an entry under its key, of an age below CACHE_TTL
FoundFresh(lookup) ==
    lookup # <<>> /\ lookup[1].found /\ lookup[1].age < CACHE_TTL

\* the request found an entry under its key, of the age CACHE_TTL or more
FoundStale(lookup) ==
    lookup # <<>> /\ lookup[1].found /\ lookup[1].age >= CACHE_TTL

\* C17: a feed request that finds an entry under its key younger than
\* CACHE_TTL is answered 200 from the cache, with the body the request that
\* wrote the entry was answered with, and fetchNeoFeed is not called.
C17_FreshEntryServed ==
    /\ \A p \in pending : p.route = "neos" => ~FoundFresh(p.lookup)
    /\ (FeedResponse /\ FoundFresh(response[1].lookup))
       => /\ response[1].fromCache
          /\ response[1].status = 200
          /\ response[1].upstream = <<>>
          /\ response[1].body = cacheLog[response[1].key[1]].answered

C17_Witness ==
    /\ FeedResponse
    /\ response[1].fromCache
    /\ response[1].n = 2
    /\ response[1].lookup[1].age = CACHE_TTL - 1
    /\ response[1].body.value # <<>>

\* the Map of a route
CacheOf(route) == IF route = "neos" THEN cache ELSE detailCache

\* C18: on both routes an entry of the age CACHE_TTL or more is never
\* served: the request goes upstream with the entry left in place, and on
\* success the entry holds the new result and the time of the write.
C18_StaleEntryBypassed ==
    /\ \A p \in pending :
          FoundStale(p.lookup) => p.key \in DOMAIN CacheOf(p.route)
    /\ response # <<>> =>
          /\ response[1].fromCache => FoundFresh(response[1].lookup)
          /\ FoundStale(response[1].lookup) =>
                /\ ~response[1].fromCache
                /\ response[1].upstream # <<>>
                /\ response[1].key[1] \in DOMAIN CacheOf(response[1].route)
          /\ response[1].wrote =>
                CacheOf(response[1].route)[response[1].key[1]] =
                    [data |-> response[1].body.value,
                     timestamp |-> response[1].at]

C18_Witness ==
    /\ response # <<>>
    /\ response[1].route = "neo"
    /\ FoundStale(response[1].lookup)
    /\ response[1].lookup[1].age = CACHE_TTL
    /\ response[1].wrote
    /\ response[1].at = CACHE_TTL

\* C19: a response served from the feed cache was computed for the
\* requesting call's own start_date, end_date, hazardous and sort.
C19_EntryIsForItsParameters ==
    (FeedResponse /\ response[1].fromCache) =>
        LET v == ValidatedData(response[1].request)
            log == cacheLog[response[1].key[1]]
        IN /\ log.validated = v
           /\ response[1].body.value =
                 normalizeNeoData(log.upstream.body[1].near_earth_objects[1],
                                  v.hazardous = <<"true">>, v.sort)

C19_Witness ==
    /\ FeedResponse
    /\ response[1].fromCache
    /\ response[1].request.sort = <<"size_desc">>
    /\ response[1].request.hazardous = <<"true">>
    /\ response[1].body.value # <<>>

\* C20: a 2xx response of the feed route carries the DayGroup list; every
\* failure is answered with a status outside 2xx; so what fetchData hands to
\* setData is never an error object.
C20_OkMeansData ==
    /\ FeedResponse =>
          /\ response[1].status \in 200..299 => response[1].body.type = "array"
          /\ (response[1].upstream # <<>>
                 /\ response[1].upstream[1].kind # "body")
             => response[1].status \notin 200..299
    /\ lastOp = "fetchData" => newData.type = "array"

\* C28: feed requests with the same cache key whose handlers overlap share
\* one call of fetchNeoFeed: no two requests with one key are suspended at
\* their upstream fetch together.
C28_OneFetchPerKey ==
    \A p, q \in pending :
        (p.route = "neos" /\ q.route = "neos" /\ p.key = q.key) => p = q

----------------------------------------------------------------------------
(* Claims on the detail route, under SpecDetail *)

\* the last response, when it is the detail route's
DetailResponse == response # <<>> /\ response[1].route = "neo"

\* the last response is the detail route's and carries a record: computed
\* from the body the NASA API answered this request with, or read from the
\* cache
DetailComputed ==
    DetailResponse /\ response[1].status = 200 /\ ~response[1].fromCache

\* C21: the record fetchNeoDetail returns has every raw approach normalized,
\* in the raw order (so as many as approachesCount, and the nearest approach
\* among them when there is one), and orbital_data exactly when it was asked
\* for and the body has it; a response to a request without orbital=true,
\* from the cache or not, carries no orbital_data.
C21_DetailIsComplete ==
    /\ DetailComputed =>
          LET raw == response[1].upstream[1].body[1]
              neo == response[1].body.value
              withOrbit == response[1].request.orbital = <<"true">>
          IN /\ Len(neo.approaches) = Len(raw.close_approach_data)
             /\ \A i \in DOMAIN neo.approaches :
                   neo.approaches[i] = normalizeApproach(raw.close_approach_data[i])
             /\ Len(neo.approaches) = neo.approachesCount
             /\ neo.nearestApproach # <<>> =>
                   neo.nearestApproach[1] \in Range(neo.approaches)
             /\ neo.nearestApproach = <<>> <=> neo.approaches = <<>>
             /\ neo.orbital_data # <<>> <=> (withOrbit /\ raw.orbital_data # <<>>)
             /\ neo.orbital_data # <<>> => neo.orbital_data = raw.orbital_data
    /\ (DetailResponse /\ response[1].status = 200
           /\ response[1].request.orbital # <<"true">>)
       => response[1].body.value.orbital_data = <<>>

C21_Witness ==
    /\ DetailComputed
    /\ response[1].n = 2
    /\ response[1].request.orbital # <<"true">>
    /\ response[1].upstream[1].body[1].orbital_data # <<>>
    /\ Len(response[1].body.value.approaches) = 2
    /\ response[1].body.value.approaches[1].epoch = 2
    /\ \E k \in DOMAIN detailCache :
          /\ k[1] = response[1].request.id
          /\ detailCache[k].data.orbital_data # <<>>
          /\ IsFresh(detailCache[k], now)

\* a failure of the detail route's upstream call
DetailFailed ==
    /\ DetailResponse
    /\ response[1].upstream # <<>>
    /\ \/ response[1].upstream[1].kind # "body"
       \/ ~NasaDetailSchemaOk(response[1].upstream[1].body[1])

----------------------------------------------------------------------------
(* Claims on useRequireAuth, under SpecAuthLive *)

\* the state the session check leaves when it is over
AuthCheckDone ==
    /\ lastAuth \in {"noSession", "rejected"} =>
          /\ (lastAuth = "noSession" \/ nAuthEvents = 0) => ~isAuthenticated
          /\ ~isAuthLoading
    /\ lastAuth = "hasSession" =>
          /\ isAuthenticated
          /\ session = stored
          /\ ~isAuthLoading

\* what the step that ends the session check does
AuthCheckStep ==
    /\ lastAuth' \in {"noSession", "rejected"} =>
          /\ pushes' = Append(pushes, redirectTo)
          /\ isAuthenticated' = isAuthenticated
    /\ lastAuth' = "hasSession" => pushes' = pushes

\* C23: when getSession resolves without a session, or rejects, the check
\* calls router.push(redirectTo) and leaves isAuthenticated as it was (false,
\* unless an auth state change had set it); when it resolves with a session
\* the check redirects nowhere and isAuthenticated is true; and isLoading
\* becomes false and stays so.
C23_AuthCheck ==
    /\ []AuthCheckDone
    /\ [][AuthCheckStep]_vars
    /\ <>[](~isAuthLoading)

C23_Witness ==
    /\ lastAuth = "rejected"
    /\ redirectTo = "/"
    /\ pushes = <<"/">>
    /\ stored # <<>>
    /\ ~isAuthenticated
    /\ ~isAuthLoading

----------------------------------------------------------------------------
(* Claims on the favorites, under SpecFav *)

\* the rows of a table that are not the user's
RowsOfOthers(table, user) == {row \in table : <<row.user_id>> # user}

\* C24: without a user addFavorite returns null, removeFavorite and
\* isFavorite false and getFavorites the empty list, and nothing is asked of
\* the table; with a user every select, upsert and delete is filtered by the
\* user's id and leaves the rows of the others as they were.
C24_FavoritesOfTheUser ==
    favCall # <<>> =>
        LET c == favCall[1]
        IN /\ c.user = <<>> =>
                 /\ c.queries = <<>>
                 /\ neo_favorites = c.before
                 /\ c.fn = "addFavorite" => c.returned = <<>>
                 /\ c.fn = "removeFavorite" => c.returned = FALSE
                 /\ c.fn = "isFavorite" => c.returned = FALSE
                 /\ c.fn = "getFavorites" => c.returned = {}
           /\ c.user # <<>> =>
                 /\ Len(c.queries) = 1
                 /\ c.queries[1].user_id = c.user[1]
                 /\ RowsOfOthers(neo_favorites, c.user) =
                       RowsOfOthers(c.before, c.user)
                 /\ c.fn = "getFavorites" =>
                       \A row \in c.returned : row.user_id = c.user[1]

C24_Witness ==
    /\ favCall # <<>>
    /\ favCall[1].fn = "removeFavorite"
    /\ favCall[1].user = <<1>>
    /\ favCall[1].returned
    /\ \E row \in favCall[1].before \ neo_favorites : row.neo_id = 2
    /\ \E row \in neo_favorites : row.user_id = 2 /\ row.neo_id = 2


----------------------------------------------------------------------------
(* Claims on FeedPage and useNeoFeed, call by call *)

MaxCalls == 1 + 2 * MaxOps

AllSettled ==
    /\ calls # <<>>
    /\ \A i \in DOMAIN calls : calls[i].state = "done"

\* no request met a failing upstream call or a failing network
EveryUpstreamSucceeds ==
    \A i \in DOMAIN calls : calls[i].outcome \notin {"notOk", "throws"}

\* the first load succeeded, and Load More is all that followed
OneLoadMore ==
    /\ Len(calls) = 3
    /\ calls[1].outcome = "ok"
    /\ calls[2].kind = "loadMore"

\* C26: after a Load More in which every upstream call succeeds, the hook
\* settles with error = null and data = the merge of what was held when Load
\* More was pressed (the first load, or nothing yet) with the groups of the
\* newly fetched range.
C26_LoadMoreSettles ==
    (OneLoadMore /\ AllSettled /\ EveryUpstreamSucceeds)
        => /\ error = "none"
           /\ \E held \in {<<>>, RouteBody(calls[1])} :
                data = MergeData(held, RouteBody(calls[2]), calls[2].sort,
                                 rev, engine)

OnlyFetchData == \A i \in DOMAIN calls : calls[i].kind = "fetchData"

LastCall == calls[Len(calls)]

\* C27: when the parameters change while a fetchData is in flight, the final
\* data and error are those of the most recently issued request, whatever the
\* order in which the responses arrive.
C27_LatestRequestWins ==
    (AllSettled /\ OnlyFetchData /\ Len(calls) >= 2)
        => IF LastCall.outcome = "ok"
           THEN data = RouteBody(LastCall) /\ error = "none"
           ELSE error = ErrorSet(rev, LastCall.outcome)

InFlight(kind) ==
    \E i \in DOMAIN calls : calls[i].kind = kind /\ calls[i].state = "inflight"

\* once no call of a kind is in flight its flag is down
LoadingFlagsDown ==
    calls # <<>> => /\ ~InFlight("fetchData") => ~isLoading
                    /\ ~InFlight("loadMore") => ~isLoadingMore

FlagOf(kind, loading, loadingMore) ==
    IF kind = "fetchData" THEN loading ELSE loadingMore

\* the step in which a call ends, at its response or before its request,
\* leaves the flag of the call down, unless a call of the same kind starts in
\* the same step
EndOfCallStep ==
    /\ \A i \in DOMAIN calls :
         (calls[i].state = "inflight" /\ calls'[i].state = "done")
             => ~FlagOf(calls[i].kind, isLoading', isLoadingMore')
    /\ \A i \in DOMAIN calls' \ DOMAIN calls :
         calls'[i].state = "done"
             => ~FlagOf(calls'[i].kind, isLoading', isLoadingMore')

\* C29: every fetchData ends with isLoading = false and every loadMore with
\* isLoadingMore = false, on success, on a status that is not OK, on a thrown
\* network error and on a range refused locally; and every call in flight
\* does end, given that its request settles.
C29_LoadingEnds ==
    /\ []LoadingFlagsDown
    /\ [][EndOfCallStep]_vars
    /\ \A i \in 1..MaxCalls :
         (Len(calls) >= i /\ calls[i].state = "inflight")
             ~> (Len(calls) >= i /\ calls[i].state = "done")

C29_Witness ==
    /\ AllSettled
    /\ \E i, j, k, l \in DOMAIN calls :
         /\ calls[i].kind = "fetchData" /\ calls[i].outcome = "throws"
         /\ calls[j].kind = "loadMore" /\ calls[j].outcome = "notOk"
         /\ calls[k].outcome = "ok"
         /\ calls[l].outcome = "local"
    /\ ~isLoading
    /\ ~isLoadingMore

\* the loadMore of the last Load More ended before its request
LoadMoreRefused ==
    /\ lastOp = "handleLoadMore"
    /\ calls[Len(calls) - 1].kind = "loadMore"
    /\ calls[Len(calls) - 1].outcome = "local"

\* C30: a loadMore that fails (status not OK, thrown error, range refused
\* locally) leaves data as it was and sets error: the step in which it fails
\* does not change data, and error is not null after it.
C30_FailedLoadMoreKeepsData ==
    (lastOp = "loadMoreFails" \/ LoadMoreRefused)
        => data = prevData /\ error # "none"

C30_Witness ==
    /\ lastOp = "loadMoreFails"
    /\ data # <<>>
    /\ data = prevData
    /\ error = "api"
    /\ \E i \in DOMAIN calls :
         /\ calls[i].kind = "loadMore"
         /\ calls[i].outcome = "notOk"

============================================================================
